---- MODULE Spec2Model ----
(***************************************************************************)
(* A model of the label export backend: the shelf packer that arranges     *)
(* labels on sheets (once for the DXF export, once for the PDF export),    *)
(* the grouping of label setups by material, and the per-label drawing of  *)
(* holes and fitted text.                                                  *)
(*                                                                         *)
(* Lengths are millimetres.  The packer is modelled on integer lengths;    *)
(* hole positions and text heights are exact rationals <<num, den>>, so    *)
(* the rounding of JavaScript's doubles is outside the model.              *)
(***************************************************************************)
EXTENDS Integers, Sequences, FiniteSets, TLC

VARIABLES
    labelSetups,   \* the request's labelSetups, a sequence of LabelSetup
    sheetConfig,   \* the SheetConfig of the request
    dxfSheets,     \* what the DXF arrangeLabelsOnSheets returned
    pdfSheets,     \* what the PDF arrangeLabelsOnSheets returned
    dxfFiles,      \* the files generateDxfFiles returned
    pdfFiles,      \* the files generatePdfFiles returned
    sheetLabels,   \* the placed labels of the sheet a sheet generator draws
    dxfDrawing,    \* what generateSheetDxf drew, label by label
    pdfDrawing,    \* what generateSheetPdf drew, label by label
    done,          \* the calls that have returned
    pathPieces,    \* the letters and numbers pathText is written from
    pathText,      \* the d attribute a path function is called with
    canvasHeight,  \* the height argument of svgPathToPolylinePoints
    flipY,         \* the flipY argument of the call that runs command by command
    commands,      \* what parseSvgPath returned
    builder,       \* the locals of svgPathToPolylinePoints inside its loop
    outline,       \* what the call that runs command by command returned
    outlineFlipped,\* what svgPathToPolylinePoints(d, true, height) returned
    outlinePlain,  \* what svgPathToPolylinePoints(d, false, height) returned
    curve,         \* the arguments of a sampleBezier call
    curvePoints,   \* what sampleBezier returned
    request,       \* the HTTP request a handler serves
    pc,            \* where the handler of the request stands
    calls,         \* the functions the handler has called, in order
    promise,       \* the promise traceImageToDxf returned
    response       \* the responses sent for the request, in order

\* The variables of the path functions, and those of the HTTP handlers.
pathVars == <<pathPieces, pathText, canvasHeight, flipY, commands, builder,
              outline, outlineFlipped, outlinePlain, curve, curvePoints>>

handlerVars == <<request, pc, calls, promise, response>>

vars == <<labelSetups, sheetConfig, dxfSheets, pdfSheets, dxfFiles, pdfFiles,
          sheetLabels, dxfDrawing, pdfDrawing, done, pathVars, handlerVars>>

-----------------------------------------------------------------------------
(* Bounds of the model. *)

MaxSetups == 2

MaxQuantity == 2

-----------------------------------------------------------------------------
(* JavaScript values. *)

\* An optional field: <<>> when the field is absent, <<v>> when it is v.
None == <<>>

Some(v) == <<v>>

\* a || b on numbers: a unless a is 0.
OrNum(a, b) == IF a # 0 THEN a ELSE b

\* a || b on strings (sequences of characters): a unless a is empty.
OrStr(a, b) == IF a # <<>> THEN a ELSE b

\* The truthiness of an optional number: present and not 0.
TruthyOpt(o) == o # None /\ o[1] # 0

Max(a, b) == IF a >= b THEN a ELSE b

-----------------------------------------------------------------------------
(* Strings are sequences of one-character strings. *)

Black == <<"B", "l", "a", "c", "k">>

White == <<"W", "h", "i", "t", "e">>

Adhesive == <<"A", "d", "h", "e", "s", "i", "v", "e">>

NonAdhesive == <<"N", "o", "n", " ", "A", "d", "h", "e", "s", "i", "v", "e">>

-----------------------------------------------------------------------------
(* LabelSetup and SheetConfig. *)

\* A LabelSetup; labelThicknessMm is in tenths of a millimetre.
LabelSetup(len, hei, qty, text, bg, thick, style, holes, lines) ==
    [labelLengthMm |-> len, labelHeightMm |-> hei, labelQuantity |-> qty,
     textColour |-> text, labelColourBackground |-> bg,
     labelThicknessMm |-> thick, style |-> style,
     noOfHoles |-> holes.noOfHoles, holeSizeMm |-> holes.holeSizeMm,
     holeDistanceMm |-> holes.holeDistanceMm, holeType |-> holes.holeType,
     holeLengthMm |-> holes.holeLengthMm, holeHeightMm |-> holes.holeHeightMm,
     lines |-> lines]

\* The hole fields of the benchmark payload: no holes.
NoHoles ==
    [noOfHoles |-> 0, holeSizeMm |-> 0, holeDistanceMm |-> 0,
     holeType |-> None, holeLengthMm |-> None, holeHeightMm |-> None]

\* A setup of the given size and quantity, black on white 0.8 mm adhesive.
PlainSetup(len, hei, qty) ==
    LabelSetup(len, hei, qty, Black, White, 8, Adhesive, NoHoles, <<>>)

DEFAULT_SHEET == [width |-> 600, height |-> 300, margin |-> 0, gap |-> 0]

\* The one label setup of the benchmark's testPayload.
testPayload ==
    LabelSetup(20, 7, 1000, Black, White, 8, Adhesive, NoHoles,
               <<[text |-> <<"L", "B", "L">>, textSizeMm |-> 3]>>)

-----------------------------------------------------------------------------
(* arrangeLabelsOnSheets of the DXF export. *)

\* qty = setup.labelQuantity || 1
EffectiveQuantity(setup) == OrNum(setup.labelQuantity, 1)

\* for (i = 0; i < qty; i++) allLabels.push(setup)
Repeat(setup, qty) == [i \in 1..qty |-> setup]

RECURSIVE ExpandFrom(_, _)
ExpandFrom(setups, k) ==
    IF k > Len(setups) THEN <<>>
    ELSE Repeat(setups[k], EffectiveQuantity(setups[k])) \o ExpandFrom(setups, k + 1)

\* allLabels: every setup repeated qty times, in input order.
ExpandSetups(setups) == ExpandFrom(setups, 1)

\* The packer's locals before the first label.
DxfStartAtCorner(sheet) ==
    [sheets |-> <<>>,
     currentSheet |-> [pageNumber |-> 1, labels |-> <<>>],
     currentX |-> 0,
     currentY |-> sheet.height,
     rowHeight |-> 0]

DxfStart(sheet) ==
    [sheets |-> <<>>,
     currentSheet |-> [pageNumber |-> 1, labels |-> <<>>],
     currentX |-> sheet.margin,
     currentY |-> sheet.height - sheet.margin,
     rowHeight |-> 0]

\* if (currentX + labelWidth > sheet.width - sheet.margin)
RowWrapsInclusive(currentX, labelWidth, sheet) ==
    currentX + labelWidth >= sheet.width - sheet.margin

RowWraps(currentX, labelWidth, sheet) ==
    currentX + labelWidth > sheet.width - sheet.margin

\* currentY -= rowHeight + sheet.gap
RowAdvanceByLabel(rowHeight, labelHeight, sheet) == labelHeight + sheet.gap

RowAdvanceUpwards(rowHeight, labelHeight, sheet) == 0 - (rowHeight + sheet.gap)

RowAdvance(rowHeight, labelHeight, sheet) == rowHeight + sheet.gap

\* if (currentY - labelHeight < sheet.margin)
SheetOverflowsInclusive(currentY, labelHeight, sheet) ==
    currentY - labelHeight <= sheet.margin

SheetOverflows(currentY, labelHeight, sheet) ==
    currentY - labelHeight < sheet.margin

\* currentSheet = { pageNumber: sheets.length + 1, labels: [] }
NewDxfSheetSkipping(sheets) == [pageNumber |-> Len(sheets) + 2, labels |-> <<>>]

NewDxfSheet(sheets) == [pageNumber |-> Len(sheets) + 1, labels |-> <<>>]

\* One iteration of the loop over allLabels.
DxfPlace(st, label, sheet) ==
    LET labelWidth == label.labelLengthMm
        labelHeight == label.labelHeightMm
        rh1 == IF st.rowHeight = 0 THEN labelHeight ELSE st.rowHeight
        wrap == RowWraps(st.currentX, labelWidth, sheet)
        x2 == IF wrap THEN sheet.margin ELSE st.currentX
        y2 == IF wrap THEN st.currentY - RowAdvance(rh1, labelHeight, sheet)
                      ELSE st.currentY
        rh2 == IF wrap THEN labelHeight ELSE rh1
        over == SheetOverflows(y2, labelHeight, sheet)
        sheets3 == IF over /\ Len(st.currentSheet.labels) > 0
                   THEN Append(st.sheets, st.currentSheet)
                   ELSE st.sheets
        cur3 == IF over THEN NewDxfSheet(sheets3) ELSE st.currentSheet
        x3 == IF over THEN sheet.margin ELSE x2
        y3 == IF over THEN sheet.height - sheet.margin ELSE y2
        rh3 == IF over THEN labelHeight ELSE rh2
        placed == [setup |-> label, x |-> x3, y |-> y3 - labelHeight, quantity |-> 1]
    IN  [sheets |-> sheets3,
         currentSheet |-> [cur3 EXCEPT !.labels = Append(@, placed)],
         currentX |-> x3 + labelWidth + sheet.gap,
         currentY |-> y3,
         rowHeight |-> Max(rh3, labelHeight)]

\* The loop over allLabels[lo..hi], in order, from the locals st.  The first
\* half is computed before the second half starts from its result.
RECURSIVE DxfLoop(_, _, _, _, _)
DxfLoop(allLabels, lo, hi, st, sheet) ==
    IF lo > hi THEN st
    ELSE IF lo = hi THEN DxfPlace(st, allLabels[lo], sheet)
    ELSE LET mid == (lo + hi) \div 2
             first == DxfLoop(allLabels, lo, mid, st, sheet)
         IN  IF Len(first.sheets) >= 0
             THEN DxfLoop(allLabels, mid + 1, hi, first, sheet)
             ELSE first

\* if (currentSheet.labels.length > 0) sheets.push(currentSheet); return sheets
DxfFinish(st) ==
    IF Len(st.currentSheet.labels) > 0
    THEN Append(st.sheets, st.currentSheet)
    ELSE st.sheets

DxfArrangeLabelsOnSheets(setups, sheet) ==
    LET allLabels == ExpandSetups(setups)
    IN  DxfFinish(DxfLoop(allLabels, 1, Len(allLabels), DxfStart(sheet), sheet))

-----------------------------------------------------------------------------
(* arrangeLabelsOnSheets of the PDF export: a sheet is a bare list of       *)
(* placed labels, without a page number.                                   *)

PdfStart(sheet) ==
    [sheets |-> <<>>,
     currentSheet |-> <<>>,
     currentX |-> sheet.margin,
     currentY |-> sheet.height - sheet.margin,
     rowHeight |-> 0]

PdfPlace(st, label, sheet) ==
    LET labelWidth == label.labelLengthMm
        labelHeight == label.labelHeightMm
        rh1 == IF st.rowHeight = 0 THEN labelHeight ELSE st.rowHeight
        wrap == st.currentX + labelWidth > sheet.width - sheet.margin
        x2 == IF wrap THEN sheet.margin ELSE st.currentX
        y2 == IF wrap THEN st.currentY - (rh1 + sheet.gap) ELSE st.currentY
        rh2 == IF wrap THEN labelHeight ELSE rh1
        over == y2 - labelHeight < sheet.margin
        sheets3 == IF over /\ Len(st.currentSheet) > 0
                   THEN Append(st.sheets, st.currentSheet)
                   ELSE st.sheets
        cur3 == IF over THEN <<>> ELSE st.currentSheet
        x3 == IF over THEN sheet.margin ELSE x2
        y3 == IF over THEN sheet.height - sheet.margin ELSE y2
        rh3 == IF over THEN labelHeight ELSE rh2
        placed == [setup |-> label, x |-> x3, y |-> y3 - labelHeight]
    IN  [sheets |-> sheets3,
         currentSheet |-> Append(cur3, placed),
         currentX |-> x3 + labelWidth + sheet.gap,
         currentY |-> y3,
         rowHeight |-> Max(rh3, labelHeight)]

RECURSIVE PdfLoop(_, _, _, _, _)
PdfLoop(allLabels, lo, hi, st, sheet) ==
    IF lo > hi THEN st
    ELSE IF lo = hi THEN PdfPlace(st, allLabels[lo], sheet)
    ELSE LET mid == (lo + hi) \div 2
             first == PdfLoop(allLabels, lo, mid, st, sheet)
         IN  IF Len(first.sheets) >= 0
             THEN PdfLoop(allLabels, mid + 1, hi, first, sheet)
             ELSE first

PdfFinish(st) ==
    IF Len(st.currentSheet) > 0
    THEN Append(st.sheets, st.currentSheet)
    ELSE st.sheets

PdfArrangeLabelsOnSheets(setups, sheet) ==
    LET allLabels == ExpandSetups(setups)
    IN  PdfFinish(PdfLoop(allLabels, 1, Len(allLabels), PdfStart(sheet), sheet))

-----------------------------------------------------------------------------
(* Numbers as text, and text as numbers. *)

DigitChars == <<"0", "1", "2", "3", "4", "5", "6", "7", "8", "9">>

RECURSIVE NatToString(_)
\* String(n) for a natural number n.
NatToString(n) ==
    IF n < 10 THEN <<DigitChars[n + 1]>>
    ELSE NatToString(n \div 10) \o <<DigitChars[(n % 10) + 1]>>

\* `${thickness}` for a thickness of t tenths of a millimetre: 8 is "0.8",
\* 16 is "1.6", 30 is "3".
TenthsToString(t) ==
    NatToString(t \div 10)
        \o (IF t % 10 = 0 THEN <<>> ELSE <<".", DigitChars[(t % 10) + 1]>>)

\* String(n).padStart(2, "0")
PadStart2(n) == IF n < 10 THEN <<"0">> \o NatToString(n) ELSE NatToString(n)

IsDigit(c) == \E d \in 1..10 : DigitChars[d] = c

DigitValue(c) == (CHOOSE d \in 1..10 : DigitChars[d] = c) - 1

\* The length of the run of digits of s that starts at position i.
RECURSIVE DigitRun(_, _)
DigitRun(s, i) ==
    IF i <= Len(s) /\ IsDigit(s[i]) THEN 1 + DigitRun(s, i + 1) ELSE 0

RECURSIVE DigitsValue(_, _, _)
DigitsValue(s, i, n) ==
    IF n = 0 THEN 0 ELSE DigitsValue(s, i, n - 1) * 10 + DigitValue(s[i + n - 1])

\* parseFloat(s) in tenths, None for NaN: the digits s starts with and, after
\* a ".", the first digit of the fraction.  (The strings of the model carry no
\* sign, exponent or leading blank, and at most one digit of fraction.)
ParseFloat(s) ==
    LET n == DigitRun(s, 1)
        hasFraction == n + 2 <= Len(s) /\ s[n + 1] = "." /\ IsDigit(s[n + 2])
    IN  IF n = 0 THEN None
        ELSE Some(DigitsValue(s, 1, n) * 10
                    + (IF hasFraction THEN DigitValue(s[n + 2]) ELSE 0))

\* `${x}` for what parseFloat returned.
FloatToString(f) == IF f = None THEN <<"N", "a", "N">> ELSE TenthsToString(f[1])

\* s.split("|")
RECURSIVE SplitFrom(_, _, _)
SplitFrom(s, i, part) ==
    IF i > Len(s) THEN <<part>>
    ELSE IF s[i] = "|" THEN <<part>> \o SplitFrom(s, i + 1, <<>>)
    ELSE SplitFrom(s, i + 1, Append(part, s[i]))

Split(s) == SplitFrom(s, 1, <<>>)

-----------------------------------------------------------------------------
(* getGroupKey and the grouping loop, the same in the DXF and the PDF       *)
(* export.                                                                 *)

\* `${text}|${bg}|${thickness}|${style}`, each part with its default.
getGroupKey(setup) ==
    OrStr(setup.textColour, Black) \o <<"|">>
        \o OrStr(setup.labelColourBackground, White) \o <<"|">>
        \o TenthsToString(OrNum(setup.labelThicknessMm, 8)) \o <<"|">>
        \o OrStr(setup.style, Adhesive)

\* The position of key among the groups, 0 when groups.has(key) is false.
GroupIndex(groups, key) ==
    IF \E g \in 1..Len(groups) : groups[g].key = key
    THEN CHOOSE g \in 1..Len(groups) : groups[g].key = key
    ELSE 0

\* if (!groups.has(key)) groups.set(key, []); groups.get(key).push(setup)
AddToLastGroup(groups, setup) ==
    IF groups = <<>>
    THEN <<[key |-> getGroupKey(setup), setups |-> <<setup>>]>>
    ELSE [groups EXCEPT ![Len(groups)].setups = Append(@, setup)]

AddToGroupsInFront(groups, setup) ==
    LET key == getGroupKey(setup)
        g == GroupIndex(groups, key)
    IN  IF g = 0
        THEN Append(groups, [key |-> key, setups |-> <<setup>>])
        ELSE [groups EXCEPT ![g].setups = <<setup>> \o @]

AddToGroups(groups, setup) ==
    LET key == getGroupKey(setup)
        g == GroupIndex(groups, key)
    IN  IF g = 0
        THEN Append(groups, [key |-> key, setups |-> <<setup>>])
        ELSE [groups EXCEPT ![g].setups = Append(@, setup)]

RECURSIVE GroupFrom(_, _, _)
GroupFrom(setups, k, groups) ==
    IF k > Len(setups) THEN groups
    ELSE GroupFrom(setups, k + 1, AddToGroups(groups, setups[k]))

\* The Map of the grouping loop, in insertion order.
GroupSetups(setups) == GroupFrom(setups, 1, <<>>)

-----------------------------------------------------------------------------
(* generateDxfFiles and generatePdfFiles.  A file's content is the sheet    *)
(* it draws; key is the Map key of the loop iteration that made the file   *)
(* and page the number its filename is built from.                         *)

\* `MLA ${textColour} on ${bgColour} ${thickness}mm${styleSuffix} ${pageNum}`
\* and the extension, from the parts of key.split("|").
Filename(key, page, extension) ==
    LET parts == Split(key)
        textColour == parts[1]
        bgColour == parts[2]
        thickness == ParseFloat(parts[3])
        style == parts[4]
        styleSuffix == IF style = NonAdhesive THEN <<" ", "N", "o", "n", " ", "A", "D">>
                                              ELSE <<>>
    IN  <<"M", "L", "A", " ">> \o textColour \o <<" ", "o", "n", " ">> \o bgColour
            \o <<" ">> \o FloatToString(thickness) \o <<"m", "m">> \o styleSuffix
            \o <<" ">> \o PadStart2(page) \o extension

\* One file per sheet of the group, in sheet order.
DxfGroupFiles(group, sheetCfg) ==
    LET sheets == DxfArrangeLabelsOnSheets(group.setups, sheetCfg)
    IN  [i \in 1..Len(sheets) |->
            [filename |-> Filename(group.key, sheets[i].pageNumber,
                                   <<".", "d", "x", "f">>),
             key |-> group.key,
             page |-> sheets[i].pageNumber,
             labels |-> sheets[i].labels]]

RECURSIVE DxfFilesFrom(_, _, _)
DxfFilesFrom(groups, g, sheetCfg) ==
    IF g > Len(groups) THEN <<>>
    ELSE DxfGroupFiles(groups[g], sheetCfg) \o DxfFilesFrom(groups, g + 1, sheetCfg)

generateDxfFiles(setups, sheetCfg) == DxfFilesFrom(GroupSetups(setups), 1, sheetCfg)

\* for (let i = 0; i < sheets.length; i++): the page is i + 1.
PdfGroupFiles(group, sheetCfg) ==
    LET sheets == PdfArrangeLabelsOnSheets(group.setups, sheetCfg)
    IN  [i \in 1..Len(sheets) |->
            [filename |-> Filename(group.key, i, <<".", "p", "d", "f">>),
             key |-> group.key,
             page |-> i,
             labels |-> sheets[i]]]

RECURSIVE PdfFilesFrom(_, _, _)
PdfFilesFrom(groups, g, sheetCfg) ==
    IF g > Len(groups) THEN <<>>
    ELSE PdfGroupFiles(groups[g], sheetCfg) \o PdfFilesFrom(groups, g + 1, sheetCfg)

generatePdfFiles(setups, sheetCfg) == PdfFilesFrom(GroupSetups(setups), 1, sheetCfg)

-----------------------------------------------------------------------------
(* Exact rationals <<numerator, denominator>>, in lowest terms with a       *)
(* positive denominator: the numbers the sheet generators compute with.    *)

Abs(n) == IF n < 0 THEN 0 - n ELSE n

RECURSIVE Gcd(_, _)
Gcd(a, b) == IF b = 0 THEN a ELSE Gcd(b, a % b)

Rat(n, d) ==
    LET g == Gcd(Abs(n), Abs(d))
        s == IF d < 0 THEN 0 - 1 ELSE 1
    IN  <<(s * n) \div g, (s * d) \div g>>

RInt(n) == <<n, 1>>

\* Denominators are brought to their least common multiple, and factors are
\* cancelled before they are multiplied, so that the integers stay small.
RAdd(a, b) ==
    LET g == Gcd(a[2], b[2])
    IN  Rat(a[1] * (b[2] \div g) + b[1] * (a[2] \div g), (a[2] \div g) * b[2])

RNeg(a) == <<0 - a[1], a[2]>>

RSub(a, b) == RAdd(a, RNeg(b))

RMul(a, b) ==
    LET g1 == Gcd(Abs(a[1]), b[2])
        g2 == Gcd(Abs(b[1]), a[2])
    IN  Rat((a[1] \div g1) * (b[1] \div g2), (a[2] \div g2) * (b[2] \div g1))

RDiv(a, b) == RMul(a, Rat(b[2], b[1]))

RLe(a, b) ==
    LET g == Gcd(a[2], b[2])
    IN  a[1] * (b[2] \div g) <= b[1] * (a[2] \div g)

RLt(a, b) == ~RLe(b, a)

RMax(a, b) == IF RLe(b, a) THEN a ELSE b

\* const MM_TO_PT = 2.83465; mmToPt(mm) = mm * MM_TO_PT
mmToPt(mm) == RMul(mm, Rat(56693, 20000))

-----------------------------------------------------------------------------
(* The holes of a placed label, the same rules in generateSheetDxf and in   *)
(* generateSheetPdf.                                                       *)

\* setup.noOfHoles > 0 && (setup.holeSizeMm > 0 ||
\*                         (setup.holeLengthMm && setup.holeHeightMm))
HolesEnabled(setup) ==
    /\ setup.noOfHoles > 0
    /\ \/ setup.holeSizeMm > 0
       \/ TruthyOpt(setup.holeLengthMm) /\ TruthyOpt(setup.holeHeightMm)

\* const holeDistance = setup.holeDistanceMm || 5
HoleDistance(setup) == OrNum(setup.holeDistanceMm, 5)

\* const holeType = setup.holeType || "circle"
HoleType(setup) == IF setup.holeType = None THEN "circle" ELSE setup.holeType[1]

\* setup.holeLengthMm || setup.holeSizeMm || 3
HoleW(setup) ==
    IF TruthyOpt(setup.holeLengthMm) THEN setup.holeLengthMm[1]
    ELSE OrNum(setup.holeSizeMm, 3)

\* setup.holeHeightMm || setup.holeSizeMm || 3
HoleH(setup) ==
    IF TruthyOpt(setup.holeHeightMm) THEN setup.holeHeightMm[1]
    ELSE OrNum(setup.holeSizeMm, 3)

\* noOfHoles === 1
OneHole(x, y, width, height, d) ==
    <<<<RInt(x + d), RAdd(RInt(y), Rat(height, 2))>>>>

\* noOfHoles === 2
TwoHoles(x, y, width, height, d) ==
    <<<<RInt(x + d), RAdd(RInt(y), Rat(height, 2))>>,
      <<RInt(x + width - d), RAdd(RInt(y), Rat(height, 2))>>>>

\* noOfHoles === 4
FourHoles(x, y, width, height, d) ==
    <<<<RInt(x + d), RInt(y + d)>>,
      <<RInt(x + width - d), RInt(y + d)>>,
      <<RInt(x + d), RInt(y + height - d)>>,
      <<RInt(x + width - d), RInt(y + height - d)>>>>

\* const spacing = (width - 2 * holeDistance) / (setup.noOfHoles - 1)
HoleSpacing(width, d, n) == Rat(width - 2 * d, n - 1)

\* for (i = 0; i < noOfHoles; i++) drawHole(x + holeDistance + i * spacing, ...)
SpacedHoles(x, y, width, height, d, n) ==
    [k \in 1..n |->
        <<RAdd(RInt(x + d), RMul(RInt(k - 1), HoleSpacing(width, d, n))),
          RAdd(RInt(y), Rat(height, 2))>>]

\* The centres drawHole is called with, in call order.
HoleCentres(placed) ==
    LET setup == placed.setup
        x == placed.x
        y == placed.y
        width == setup.labelLengthMm
        height == setup.labelHeightMm
        d == HoleDistance(setup)
        n == setup.noOfHoles
    IN  IF ~HolesEnabled(setup) THEN <<>>
        ELSE IF n = 1 THEN OneHole(x, y, width, height, d)
        ELSE IF n = 2 THEN TwoHoles(x, y, width, height, d)
        ELSE IF n = 4 THEN FourHoles(x, y, width, height, d)
        ELSE SpacedHoles(x, y, width, height, d, n)

\* drawHole of generateSheetDxf: four lines around (hx, hy), or a circle.
DxfDrawHole(setup, c) ==
    IF HoleType(setup) = "square"
    THEN [shape |-> "square",
          x |-> RSub(c[1], Rat(HoleW(setup), 2)),
          y |-> RSub(c[2], Rat(HoleH(setup), 2)),
          width |-> RInt(HoleW(setup)),
          height |-> RInt(HoleH(setup))]
    ELSE [shape |-> "circle", x |-> c[1], y |-> c[2],
          radius |-> Rat(setup.holeSizeMm, 2)]

\* drawHole of generateSheetPdf: a rectangle or a circle, in points.
PdfDrawHole(setup, c) ==
    IF HoleType(setup) = "square"
    THEN [shape |-> "square",
          x |-> mmToPt(RSub(c[1], Rat(HoleW(setup), 2))),
          y |-> mmToPt(RSub(c[2], Rat(HoleH(setup), 2))),
          width |-> mmToPt(RInt(HoleW(setup))),
          height |-> mmToPt(RInt(HoleH(setup)))]
    ELSE [shape |-> "circle", x |-> mmToPt(c[1]), y |-> mmToPt(c[2]),
          radius |-> mmToPt(Rat(setup.holeSizeMm, 2))]

-----------------------------------------------------------------------------
(* The text lines of a placed label. *)

\* line.text && line.text.trim() !== ""
IsValidLine(line) == \E i \in 1..Len(line.text) : line.text[i] # " "

ValidLines(lines) == SelectSeq(lines, IsValidLine)

\* estimateTextWidth: text.length * textHeight * 0.55
estimateTextWidth(text, textHeight) ==
    RMul(RMul(RInt(Len(text)), textHeight), Rat(55, 100))

\* calculateFitTextHeight(text, maxWidth, desiredHeight, padding)
calculateFitTextHeight(text, maxWidth, desiredHeight, padding) ==
    LET availableWidth == RInt(maxWidth - padding * 2)
        estimatedWidth == estimateTextWidth(text, desiredHeight)
    IN  IF RLe(estimatedWidth, availableWidth) THEN desiredHeight
        ELSE RMax(Rat(1, 2), RMul(desiredHeight, RDiv(availableWidth, estimatedWidth)))

\* lineData of generateSheetDxf: each valid line with its fitted height.
DxfLineData(setup) ==
    LET valid == ValidLines(setup.lines)
    IN  [i \in 1..Len(valid) |->
            [text |-> valid[i].text,
             height |-> calculateFitTextHeight(valid[i].text, setup.labelLengthMm,
                                               RInt(OrNum(valid[i].textSizeMm, 2)), 2)]]

\* The text height generateSheetPdf computes in its own loop.
PdfFitTextHeight(text, width, desiredHeight, padding) ==
    LET estimatedWidth == RMul(RMul(RInt(Len(text)), desiredHeight), Rat(1, 2))
        availableWidth == RInt(width - padding * 2)
    IN  IF RLt(availableWidth, estimatedWidth)
        THEN RMax(Rat(1, 2), RDiv(availableWidth, RMul(RInt(Len(text)), Rat(1, 2))))
        ELSE desiredHeight

\* lineData of generateSheetPdf.
PdfLineData(setup) ==
    LET valid == ValidLines(setup.lines)
    IN  [i \in 1..Len(valid) |->
            [text |-> valid[i].text,
             height |-> PdfFitTextHeight(valid[i].text, setup.labelLengthMm,
                                         RInt(OrNum(valid[i].textSizeMm, 2)), 2)]]

RECURSIVE SumHeights(_, _)
SumHeights(lineData, k) ==
    IF k = 0 THEN RInt(0) ELSE RAdd(SumHeights(lineData, k - 1), lineData[k].height)

\* totalTextHeight: the heights and a line spacing of 1 between the lines.
TotalTextHeight(lineData) ==
    RAdd(SumHeights(lineData, Len(lineData)), RInt(Len(lineData) - 1))

\* The running y before line k is drawn: the block is centred in the label,
\* and every earlier line took its height and the line spacing.
LineTop(placed, lineData, k) ==
    RSub(RAdd(RInt(placed.y),
              RDiv(RAdd(RInt(placed.setup.labelHeightMm), TotalTextHeight(lineData)),
                   RInt(2))),
         RAdd(SumHeights(lineData, k - 1), RInt(k - 1)))

\* The MText entities of generateSheetDxf, centred at mid-height of the line.
DxfTexts(placed) ==
    LET lineData == DxfLineData(placed.setup)
    IN  [k \in 1..Len(lineData) |->
            [text |-> lineData[k].text,
             height |-> lineData[k].height,
             x |-> RAdd(RInt(placed.x), Rat(placed.setup.labelLengthMm, 2)),
             y |-> RSub(LineTop(placed, lineData, k),
                        RDiv(lineData[k].height, RInt(2))),
             width |-> RInt(placed.setup.labelLengthMm - 4)]]

\* The drawText calls of generateSheetPdf for the lines, in points; height is
\* the line's height in millimetres.  (x comes from the font's metrics, which
\* are not modelled.)
PdfTexts(placed) ==
    LET lineData == PdfLineData(placed.setup)
    IN  [k \in 1..Len(lineData) |->
            [text |-> lineData[k].text,
             height |-> lineData[k].height,
             size |-> mmToPt(lineData[k].height),
             y |-> mmToPt(RSub(LineTop(placed, lineData, k), lineData[k].height))]]

-----------------------------------------------------------------------------
(* generateSheetDxf and generateSheetPdf: what is drawn for each placed      *)
(* label of the sheet.                                                     *)

DxfDrawLabel(placed) ==
    LET centres == HoleCentres(placed)
    IN  [outline |-> [x |-> RInt(placed.x), y |-> RInt(placed.y),
                      width |-> RInt(placed.setup.labelLengthMm),
                      height |-> RInt(placed.setup.labelHeightMm)],
         holes |-> [k \in 1..Len(centres) |-> DxfDrawHole(placed.setup, centres[k])],
         texts |-> DxfTexts(placed)]

generateSheetDxf(labels) == [i \in 1..Len(labels) |-> DxfDrawLabel(labels[i])]

PdfDrawLabel(placed) ==
    LET centres == HoleCentres(placed)
    IN  [outline |-> [x |-> mmToPt(RInt(placed.x)), y |-> mmToPt(RInt(placed.y)),
                      width |-> mmToPt(RInt(placed.setup.labelLengthMm)),
                      height |-> mmToPt(RInt(placed.setup.labelHeightMm))],
         holes |-> [k \in 1..Len(centres) |-> PdfDrawHole(placed.setup, centres[k])],
         texts |-> PdfTexts(placed),
         sizeText |-> [size |-> mmToPt(Rat(3, 2)),
                       y |-> RAdd(mmToPt(RInt(placed.y)), mmToPt(RInt(1)))]]

generateSheetPdf(labels) == [i \in 1..Len(labels) |-> PdfDrawLabel(labels[i])]

-----------------------------------------------------------------------------
(* The packing specification: a request is drawn, and each of the two       *)
(* packers is run on it once.                                              *)

LabelLengths == {1, 2, 5}

LabelHeights == {1, 2, 4}

\* The sheets of the packing runs: the usable area is 4 x 3 in both.
SheetConfigs ==
    {[width |-> 4, height |-> 3, margin |-> 0, gap |-> 0],
     [width |-> 6, height |-> 5, margin |-> 1, gap |-> 1]}

PackSetups ==
    {PlainSetup(l, h, q) : l \in LabelLengths, h \in LabelHeights, q \in 0..MaxQuantity}

SeqsUpTo(S, n) == UNION {[1..k -> S] : k \in 1..n}

\* No path function is called.
IdlePath ==
    /\ pathPieces = <<>>
    /\ pathText = <<>>
    /\ canvasHeight = 0
    /\ flipY = FALSE
    /\ commands = <<>>
    /\ builder = <<>>
    /\ outline = <<>>
    /\ outlineFlipped = <<>>
    /\ outlinePlain = <<>>
    /\ curve = <<>>
    /\ curvePoints = <<>>

\* No HTTP request is served.
IdleHandler ==
    /\ request = <<>>
    /\ pc = "idle"
    /\ calls = <<>>
    /\ promise = <<>>
    /\ response = <<>>

\* The variables the packing runs leave alone.
IdleExport == dxfFiles = <<>> /\ pdfFiles = <<>>

IdleDrawing ==
    /\ sheetLabels = <<>> /\ dxfDrawing = <<>> /\ pdfDrawing = <<>>
    /\ IdlePath
    /\ IdleHandler

InitPack ==
    /\ \/ /\ labelSetups \in SeqsUpTo(PackSetups, MaxSetups)
          /\ sheetConfig \in SheetConfigs
       \/ /\ labelSetups = <<testPayload>>
          /\ sheetConfig = DEFAULT_SHEET
    /\ dxfSheets = <<>>
    /\ pdfSheets = <<>>
    /\ done = {}
    /\ IdleExport
    /\ IdleDrawing

ArrangeDxf ==
    /\ "dxf" \notin done
    /\ dxfSheets' = DxfArrangeLabelsOnSheets(labelSetups, sheetConfig)
    /\ done' = done \cup {"dxf"}
    /\ UNCHANGED <<labelSetups, sheetConfig, pdfSheets, dxfFiles, pdfFiles,
                   sheetLabels, dxfDrawing, pdfDrawing,
                   pathVars, handlerVars>>

ArrangePdf ==
    /\ "pdf" \notin done
    /\ pdfSheets' = PdfArrangeLabelsOnSheets(labelSetups, sheetConfig)
    /\ done' = done \cup {"pdf"}
    /\ UNCHANGED <<labelSetups, sheetConfig, dxfSheets, dxfFiles, pdfFiles,
                   sheetLabels, dxfDrawing, pdfDrawing,
                   pathVars, handlerVars>>

NextPack == ArrangeDxf \/ ArrangePdf

Spec == InitPack /\ [][NextPack]_vars

-----------------------------------------------------------------------------
(* The export specification: a request with setups of several materials is  *)
(* drawn, and generateDxfFiles and generatePdfFiles are each run on it.     *)

MaxExportSetups == 2

Red == <<"R", "e", "d">>

Matte == <<"M", "a", "t", "t", "e">>

\* (text colour, background colour, thickness in tenths, style)
Materials ==
    {<<Black, White, 8, Adhesive>>,
     <<<<>>, White, 8, Adhesive>>,
     <<<<>>, <<>>, 0, <<>>>>,
     <<Red, White, 8, Adhesive>>,
     <<Black, White, 16, NonAdhesive>>,
     <<Black, White, 8, Matte>>,
     <<<<"R">>, <<"W", "|", "Y">>, 8, Adhesive>>,
     <<<<"R", "|", "W">>, <<"Y">>, 8, Adhesive>>}

\* (length, height): two labels per sheet, and a label taller than the sheet.
ExportSizes == {<<2, 2>>, <<2, 4>>}

ExportSheet == [width |-> 4, height |-> 3, margin |-> 0, gap |-> 0]

ExportQuantities == {1, 2}

ExportSetups ==
    {LabelSetup(s[1], s[2], q, m[1], m[2], m[3], m[4], NoHoles, <<>>) :
        s \in ExportSizes, q \in ExportQuantities, m \in Materials}

IdlePack == dxfSheets = <<>> /\ pdfSheets = <<>>

InitExport ==
    /\ labelSetups \in SeqsUpTo(ExportSetups, MaxExportSetups)
    /\ sheetConfig = ExportSheet
    /\ dxfFiles = <<>>
    /\ pdfFiles = <<>>
    /\ done = {}
    /\ IdlePack
    /\ IdleDrawing

GenerateDxfFiles ==
    /\ "dxfFiles" \notin done
    /\ dxfFiles' = generateDxfFiles(labelSetups, sheetConfig)
    /\ done' = done \cup {"dxfFiles"}
    /\ UNCHANGED <<labelSetups, sheetConfig, dxfSheets, pdfSheets, pdfFiles,
                   sheetLabels, dxfDrawing, pdfDrawing,
                   pathVars, handlerVars>>

GeneratePdfFiles ==
    /\ "pdfFiles" \notin done
    /\ pdfFiles' = generatePdfFiles(labelSetups, sheetConfig)
    /\ done' = done \cup {"pdfFiles"}
    /\ UNCHANGED <<labelSetups, sheetConfig, dxfSheets, pdfSheets, dxfFiles,
                   sheetLabels, dxfDrawing, pdfDrawing,
                   pathVars, handlerVars>>

NextExport == GenerateDxfFiles \/ GeneratePdfFiles

SpecExport == InitExport /\ [][NextExport]_vars

-----------------------------------------------------------------------------
(* The order specification: a request of up to MaxOrderSetups setups of    *)
(* two materials, of any quantity from 0, two labels to a sheet.           *)

MaxOrderSetups == 3

\* The last tuple has the group key of the first.
OrderMaterials ==
    {<<Black, White, 8, Adhesive>>,
     <<Red, White, 8, Adhesive>>,
     <<<<>>, <<>>, 0, <<>>>>}

OrderSetups ==
    {LabelSetup(2, 2, q, m[1], m[2], m[3], m[4], NoHoles, <<>>) :
        q \in 0..MaxQuantity, m \in OrderMaterials}

InitOrder ==
    /\ labelSetups \in SeqsUpTo(OrderSetups, MaxOrderSetups)
    /\ sheetConfig = ExportSheet
    /\ dxfFiles = <<>>
    /\ pdfFiles = <<>>
    /\ done = {}
    /\ IdlePack
    /\ IdleDrawing

SpecOrder == InitOrder /\ [][NextExport]_vars

-----------------------------------------------------------------------------
(* The drawing specifications: a sheet of one placed label is drawn by      *)
(* generateSheetDxf and by generateSheetPdf.  SpecHoles draws the label's   *)
(* hole fields from bounded sets, SpecText its text lines.                  *)

MaxHoles == 5

MaxTextLen == 4

MaxLines == 2

\* (length, height) of the drawn label, and where it is placed.
DrawnSizes == {<<50, 20>>, <<12, 6>>}

DrawnOrigins == {<<0, 0>>, <<3, 7>>}

OptionalLengths == {None, Some(0), Some(4)}

OptionalHeights == {None, Some(0), Some(2)}

HoleFields ==
    [noOfHoles : 0..MaxHoles,
     holeSizeMm : {0, 3},
     holeDistanceMm : {0, 2, 5},
     holeType : {None, Some("circle"), Some("square")},
     holeLengthMm : OptionalLengths,
     holeHeightMm : OptionalHeights]

IdleFiles ==
    /\ labelSetups = <<>>
    /\ sheetConfig = DEFAULT_SHEET
    /\ IdlePack
    /\ IdleExport
    /\ IdlePath
    /\ IdleHandler

InitHoles ==
    /\ \E s \in DrawnSizes, o \in DrawnOrigins, holes \in HoleFields :
           sheetLabels =
               <<[setup |-> LabelSetup(s[1], s[2], 1, Black, White, 8, Adhesive,
                                       holes, <<>>),
                  x |-> o[1], y |-> o[2]]>>
    /\ dxfDrawing = <<>>
    /\ pdfDrawing = <<>>
    /\ done = {}
    /\ IdleFiles

\* The texts of the lines: k letters, a blank, and a letter after a blank.
LineTexts ==
    {[i \in 1..k |-> "A"] : k \in 0..MaxTextLen} \cup {<<" ">>, <<" ", "A">>}

TextLines == [text : LineTexts, textSizeMm : {0, 3}]

\* The label lengths of the text runs: 3 leaves no room inside the padding.
TextLabelLengths == {3, 10}

InitText ==
    /\ \E len \in TextLabelLengths, lines \in SeqsUpTo(TextLines, MaxLines) :
           sheetLabels =
               <<[setup |-> LabelSetup(len, 6, 1, Black, White, 8, Adhesive,
                                       NoHoles, lines),
                  x |-> 0, y |-> 0]>>
    /\ dxfDrawing = <<>>
    /\ pdfDrawing = <<>>
    /\ done = {}
    /\ IdleFiles

GenerateSheetDxf ==
    /\ "sheetDxf" \notin done
    /\ dxfDrawing' = generateSheetDxf(sheetLabels)
    /\ done' = done \cup {"sheetDxf"}
    /\ UNCHANGED <<labelSetups, sheetConfig, dxfSheets, pdfSheets, dxfFiles,
                   pdfFiles, sheetLabels, pdfDrawing,
                   pathVars, handlerVars>>

GenerateSheetPdf ==
    /\ "sheetPdf" \notin done
    /\ pdfDrawing' = generateSheetPdf(sheetLabels)
    /\ done' = done \cup {"sheetPdf"}
    /\ UNCHANGED <<labelSetups, sheetConfig, dxfSheets, pdfSheets, dxfFiles,
                   pdfFiles, sheetLabels, dxfDrawing,
                   pathVars, handlerVars>>

NextDraw == GenerateSheetDxf \/ GenerateSheetPdf

SpecHoles == InitHoles /\ [][NextDraw]_vars

SpecText == InitText /\ [][NextDraw]_vars

-----------------------------------------------------------------------------
(* What the claims about the packer speak of. *)

RECURSIVE SumQuantitiesFrom(_, _)
SumQuantitiesFrom(setups, k) ==
    IF k > Len(setups) THEN 0
    ELSE setups[k].labelQuantity + SumQuantitiesFrom(setups, k + 1)

\* The sum of the setups' labelQuantity values.
SumQuantities(setups) == SumQuantitiesFrom(setups, 1)

RECURSIVE SumLens(_, _)
SumLens(lists, k) ==
    IF k > Len(lists) THEN 0 ELSE Len(lists[k]) + SumLens(lists, k + 1)

\* The labels of each DXF sheet, as the PDF packer returns them.
DxfLabelLists(sheets) == [i \in 1..Len(sheets) |-> sheets[i].labels]

\* The number of placed labels over all sheets.
TotalPlaced(lists) == SumLens(lists, 1)

\* The footprints [x, x+length] x [y, y+height] of two placed labels have
\* disjoint interiors.
Disjoint(a, b) ==
    \/ a.x + a.setup.labelLengthMm <= b.x
    \/ b.x + b.setup.labelLengthMm <= a.x
    \/ a.y + a.setup.labelHeightMm <= b.y
    \/ b.y + b.setup.labelHeightMm <= a.y

\* The top edge of a placed label: the top of its row.
TopEdge(p) == p.y + p.setup.labelHeightMm

UsableWidth(sheet) == sheet.width - 2 * sheet.margin

UsableHeight(sheet) == sheet.height - 2 * sheet.margin

Oversized(setup, sheet) ==
    \/ setup.labelLengthMm > UsableWidth(sheet)
    \/ setup.labelHeightMm > UsableHeight(sheet)

\* C1 (as claimed): the number of placed labels over all returned sheets is
\* the sum of the setups' labelQuantity, for the DXF and for the PDF packer;
\* a setup of quantity 0 then adds no label.
C1_PackingConservation ==
    /\ "dxf" \in done =>
          TotalPlaced(DxfLabelLists(dxfSheets)) = SumQuantities(labelSetups)
    /\ "pdf" \in done => TotalPlaced(pdfSheets) = SumQuantities(labelSetups)

\* C2: on every sheet the DXF packer returns, any two distinct placed labels
\* have footprints with disjoint interiors.
C2_NoOverlap ==
    "dxf" \in done =>
        \A s \in 1..Len(dxfSheets) :
            LET ls == dxfSheets[s].labels
            IN  \A i, j \in 1..Len(ls) : i < j => Disjoint(ls[i], ls[j])

\* C2's case: a sheet whose first row holds two labels of different heights,
\* the taller one first, with a later row below them.
C2_Witness ==
    /\ "dxf" \in done
    /\ \A k \in 1..Len(labelSetups) : labelSetups[k].labelQuantity > 0
    /\ \E s \in 1..Len(dxfSheets) :
           LET ls == dxfSheets[s].labels
           IN  /\ Len(ls) >= 3
               /\ TopEdge(ls[1]) = TopEdge(ls[2])
               /\ ls[1].setup.labelHeightMm > ls[2].setup.labelHeightMm
               /\ TopEdge(ls[3]) < TopEdge(ls[1])

\* C4: reading a returned sheet in list order, the top edge y + height never
\* increases; while it stays the same (one row) x does not decrease, and so
\* wherever x decreases the top edge has not increased.
C4_ShelfOrdering ==
    "dxf" \in done =>
        \A s \in 1..Len(dxfSheets) :
            LET ls == dxfSheets[s].labels
            IN  \A i \in 1..(Len(ls) - 1) :
                    /\ TopEdge(ls[i + 1]) = TopEdge(ls[i]) => ls[i + 1].x >= ls[i].x
                    /\ ls[i + 1].x < ls[i].x => TopEdge(ls[i + 1]) <= TopEdge(ls[i])
                    /\ TopEdge(ls[i + 1]) <= TopEdge(ls[i])

\* C4's case: a sheet on which a row of two labels is followed by a row wrap.
C4_Witness ==
    /\ "dxf" \in done
    /\ \A k \in 1..Len(labelSetups) : labelSetups[k].labelQuantity > 0
    /\ \E s \in 1..Len(dxfSheets) :
           LET ls == dxfSheets[s].labels
           IN  /\ Len(ls) >= 3
               /\ ls[2].x > ls[1].x
               /\ ls[3].x < ls[2].x
               /\ TopEdge(ls[3]) < TopEdge(ls[2])

\* All labels of the request have the size of the first setup, and the sheet
\* has neither margin nor gap.
UniformRequest ==
    /\ sheetConfig.margin = 0
    /\ sheetConfig.gap = 0
    /\ \A k \in 1..Len(labelSetups) :
           /\ labelSetups[k].labelLengthMm = labelSetups[1].labelLengthMm
           /\ labelSetups[k].labelHeightMm = labelSetups[1].labelHeightMm

\* floor(W/w) * floor(H/h) for the uniform request.
UniformCapacity ==
    (sheetConfig.width \div labelSetups[1].labelLengthMm)
        * (sheetConfig.height \div labelSetups[1].labelHeightMm)

\* Every sheet but the last holds UniformCapacity labels, and the number of
\* sheets is ceil(n / UniformCapacity), n the number of placed labels.
CapacityRule ==
    LET n == TotalPlaced(DxfLabelLists(dxfSheets))
    IN  /\ \A s \in 1..(Len(dxfSheets) - 1) :
               Len(dxfSheets[s].labels) = UniformCapacity
        /\ n <= UniformCapacity * Len(dxfSheets)
        /\ n > UniformCapacity * (Len(dxfSheets) - 1)

\* The benchmark: testPayload's 1000 labels of 20 x 7 on the 600 x 300 sheet
\* are all on one sheet.
BenchmarkOnOneSheet ==
    (labelSetups = <<testPayload>> /\ sheetConfig = DEFAULT_SHEET) =>
        /\ UniformCapacity = 1260
        /\ Len(dxfSheets) = 1
        /\ Len(dxfSheets[1].labels) = 1000

-----------------------------------------------------------------------------
(* What the claims about the groups and their files speak of. *)

\* The (text colour, background colour, thickness, style) of a setup, as given.
MaterialTuple(setup) ==
    <<setup.textColour, setup.labelColourBackground, setup.labelThicknessMm,
      setup.style>>

\* The file holds a placed label of the setup.
Holds(file, setup) == \E i \in 1..Len(file.labels) : file.labels[i].setup = setup

\* No file of the list holds labels of both setups.
NeverTogether(files, a, b) ==
    \A f \in 1..Len(files) : ~(Holds(files[f], a) /\ Holds(files[f], b))

\* Both exports have returned.
Exported == "dxfFiles" \in done /\ "pdfFiles" \in done

StartsGroup(files, f) == f = 1 \/ files[f - 1].key # files[f].key

\* The setup and the coordinates of each placed label.
Placements(labels) ==
    [i \in 1..Len(labels) |->
        <<labels[i].setup, labels[i].x, labels[i].y>>]

\* C6: in the DXF files of a request no sheet is empty; the first sheet of
\* every group has page number 1 and every later one the number after its
\* predecessor's; and the PDF files are, position by position, the same
\* sheets under the same page numbers.
C6_PageNumbering ==
    Exported =>
        /\ \A f \in 1..Len(dxfFiles) :
               /\ Len(dxfFiles[f].labels) > 0
               /\ dxfFiles[f].page =
                      IF StartsGroup(dxfFiles, f) THEN 1 ELSE dxfFiles[f - 1].page + 1
        /\ \A f, g \in 1..Len(dxfFiles) :
               (f + 1 < g /\ dxfFiles[f].key = dxfFiles[g].key) =>
                   dxfFiles[f + 1].key = dxfFiles[f].key
        /\ Len(pdfFiles) = Len(dxfFiles)
        /\ \A f \in 1..Len(pdfFiles) :
               /\ pdfFiles[f].key = dxfFiles[f].key
               /\ pdfFiles[f].page = dxfFiles[f].page
               /\ Placements(pdfFiles[f].labels) = Placements(dxfFiles[f].labels)

\* C6's case: two groups, the first of which starts with a label taller than
\* the sheet (the sheet overflows while it is still empty) and has a second
\* page, so that the numbering restarts for the second group.
C6_Witness ==
    /\ Exported
    /\ Len(dxfFiles) >= 3
    /\ labelSetups[1].labelHeightMm > UsableHeight(sheetConfig)
    /\ dxfFiles[2].key = dxfFiles[1].key
    /\ dxfFiles[2].page = 2
    /\ dxfFiles[Len(dxfFiles)].key # dxfFiles[1].key
    /\ dxfFiles[Len(dxfFiles)].page = 1

-----------------------------------------------------------------------------
(* What the claims about holes and text speak of. *)

\* Both sheet generators have returned.
Drawn == "sheetDxf" \in done /\ "sheetPdf" \in done

\* The one placed label of the drawn sheet and its fields.
TheLabel == sheetLabels[1]

TheSetup == TheLabel.setup

\* The centre of a drawn hole: of a square, the middle of its sides.
Centre(hole) ==
    IF hole.shape = "square"
    THEN <<RAdd(hole.x, RDiv(hole.width, RInt(2))),
           RAdd(hole.y, RDiv(hole.height, RInt(2)))>>
    ELSE <<hole.x, hole.y>>

Centres(holes) == [k \in 1..Len(holes) |-> Centre(holes[k])]

\* A list of centres in millimetres, in points.
InPoints(centres) ==
    [k \in 1..Len(centres) |-> <<mmToPt(centres[k][1]), mmToPt(centres[k][2])>>]

\* The count is positive and a hole size, or both square dimensions, are given.
Gate(setup) ==
    /\ setup.noOfHoles > 0
    /\ \/ setup.holeSizeMm > 0
       \/ /\ setup.holeLengthMm \notin {None, Some(0)}
          /\ setup.holeHeightMm \notin {None, Some(0)}

\* y + h/2
Midline(placed) == Rat(2 * placed.y + placed.setup.labelHeightMm, 2)

\* The centres the claim names for the counts 1, 2 and 4, at distance d.
FixedArityCentres(placed, d) ==
    LET x == placed.x
        y == placed.y
        w == placed.setup.labelLengthMm
        h == placed.setup.labelHeightMm
    IN  CASE placed.setup.noOfHoles = 1 -> <<<<RInt(x + d), Midline(placed)>>>>
          [] placed.setup.noOfHoles = 2 ->
                <<<<RInt(x + d), Midline(placed)>>, <<RInt(x + w - d), Midline(placed)>>>>
          [] placed.setup.noOfHoles = 4 ->
                <<<<RInt(x + d), RInt(y + d)>>, <<RInt(x + w - d), RInt(y + d)>>,
                  <<RInt(x + d), RInt(y + h - d)>>, <<RInt(x + w - d), RInt(y + h - d)>>>>

\* Both generators drew holes exactly at the given centres, in this order.
HolesDrawnAt(centres) ==
    /\ Centres(dxfDrawing[1].holes) = centres
    /\ Centres(pdfDrawing[1].holes) = InPoints(centres)

\* The distance in force: the setup's, and 5 when the setup gives 0.
DistanceInForce(setup) == IF setup.holeDistanceMm = 0 THEN 5 ELSE setup.holeDistanceMm

\* C7 (as claimed): with holes enabled and a count of 1, 2 or 4, the holes are
\* drawn at the claim's centres for the setup's hole distance d, whatever d is.
C7_OriginalFixedArityHoles ==
    (Drawn /\ Gate(TheSetup) /\ TheSetup.noOfHoles \in {1, 2, 4}) =>
        HolesDrawnAt(FixedArityCentres(TheLabel, TheSetup.holeDistanceMm))

\* C7, what the generators do instead: with holes enabled and a count of 1, 2
\* or 4, the holes are drawn at the claim's centres for the distance in force,
\* which is the setup's hole distance unless that is 0, and then 5; a 50 x 20 label at the
\* origin with distance 5 and count 4 has holes at (5,5), (45,5), (5,15), (45,15).
C7_FixedArityHoles ==
    (Drawn /\ Gate(TheSetup) /\ TheSetup.noOfHoles \in {1, 2, 4}) =>
        /\ HolesDrawnAt(FixedArityCentres(TheLabel, DistanceInForce(TheSetup)))
        /\ (/\ TheSetup.labelLengthMm = 50 /\ TheSetup.labelHeightMm = 20
            /\ TheLabel.x = 0 /\ TheLabel.y = 0
            /\ TheSetup.holeDistanceMm = 5 /\ TheSetup.noOfHoles = 4) =>
               Centres(dxfDrawing[1].holes) =
                   <<<<RInt(5), RInt(5)>>, <<RInt(45), RInt(5)>>,
                     <<RInt(5), RInt(15)>>, <<RInt(45), RInt(15)>>>>

\* A case of C7 away from distance 0: a label away from the origin with two
\* holes at distance 2 has
\* been drawn by both generators.
C7_Witness ==
    /\ Drawn
    /\ Gate(TheSetup)
    /\ TheSetup.noOfHoles = 2
    /\ TheSetup.holeDistanceMm = 2
    /\ TheLabel.x > 0
    /\ Len(dxfDrawing[1].holes) = 2
    /\ Len(pdfDrawing[1].holes) = 2

\* The N centres of the claim on the midline: the i-th (from 0) at
\* x + d + i * (w - 2d) / (N - 1).
SpacedCentres(placed, d) ==
    LET n == placed.setup.noOfHoles
    IN  [k \in 1..n |->
            <<Rat((placed.x + d) * (n - 1)
                    + (k - 1) * (placed.setup.labelLengthMm - 2 * d), n - 1),
              Midline(placed)>>]

\* C8 (as claimed): with holes enabled and a count N other than 1, 2 and 4,
\* exactly N holes are drawn, on the midline, spaced from x + d to x + w - d
\* for the setup's hole distance d.
C8_OriginalSpacedHoles ==
    (Drawn /\ Gate(TheSetup) /\ TheSetup.noOfHoles \notin {1, 2, 4}) =>
        HolesDrawnAt(SpacedCentres(TheLabel, TheSetup.holeDistanceMm))

\* C8, what the generators do instead: the same for the distance in force, 5
\* when the setup's hole distance is 0: N holes, the first at x + d and the last at x + w - d.
C8_SpacedHoles ==
    (Drawn /\ Gate(TheSetup) /\ TheSetup.noOfHoles \notin {1, 2, 4}) =>
        LET d == DistanceInForce(TheSetup)
            n == TheSetup.noOfHoles
            centres == Centres(dxfDrawing[1].holes)
        IN  /\ HolesDrawnAt(SpacedCentres(TheLabel, d))
            /\ Len(centres) = n
            /\ centres[1][1] = RInt(TheLabel.x + d)
            /\ centres[n][1] = RInt(TheLabel.x + TheSetup.labelLengthMm - d)

\* A case of C8 away from distance 0: five holes have been drawn along the
\* midline of a label.
C8_Witness ==
    /\ Drawn
    /\ Gate(TheSetup)
    /\ TheSetup.noOfHoles = 5
    /\ TheSetup.holeDistanceMm = 2
    /\ Len(dxfDrawing[1].holes) = 5
    /\ Len(pdfDrawing[1].holes) = 5

\* The square's sides the claim names: the dimension given, else the hole
\* size, else 3.
ClaimedSide(dimension, size) ==
    IF dimension \notin {None, Some(0)} THEN dimension[1]
    ELSE IF size # 0 THEN size ELSE 3

\* A drawn hole has the configured shape and a positive extent; scale is 1
\* for millimetres.
ConfiguredShape(hole, setup, scale) ==
    IF setup.holeType = Some("square")
    THEN /\ hole.shape = "square"
         /\ hole.width = RMul(scale, RInt(ClaimedSide(setup.holeLengthMm, setup.holeSizeMm)))
         /\ hole.height = RMul(scale, RInt(ClaimedSide(setup.holeHeightMm, setup.holeSizeMm)))
         /\ RLt(RInt(0), hole.width)
         /\ RLt(RInt(0), hole.height)
    ELSE /\ hole.shape = "circle"
         /\ hole.radius = RMul(scale, Rat(setup.holeSizeMm, 2))
         /\ RLt(RInt(0), hole.radius)

\* C9 (as claimed): holes are drawn only when the count is positive and a hole
\* size or both square dimensions are given; none is drawn for a count of 0,
\* or for a size of 0 with a square dimension missing; and every hole drawn
\* has the configured shape with a positive extent.
C9_HoleGating ==
    Drawn =>
        /\ (dxfDrawing[1].holes # <<>> \/ pdfDrawing[1].holes # <<>>) =>
               /\ TheSetup.noOfHoles > 0
               /\ \/ TheSetup.holeSizeMm > 0
                  \/ TheSetup.holeLengthMm # None /\ TheSetup.holeHeightMm # None
        /\ (\/ TheSetup.noOfHoles = 0
            \/ /\ TheSetup.holeSizeMm = 0
               /\ (TheSetup.holeLengthMm = None \/ TheSetup.holeHeightMm = None)) =>
               dxfDrawing[1].holes = <<>> /\ pdfDrawing[1].holes = <<>>
        /\ \A k \in 1..Len(dxfDrawing[1].holes) :
               ConfiguredShape(dxfDrawing[1].holes[k], TheSetup, RInt(1))
        /\ \A k \in 1..Len(pdfDrawing[1].holes) :
               ConfiguredShape(pdfDrawing[1].holes[k], TheSetup, mmToPt(RInt(1)))

\* The height the claim gives a line of len characters and desired height
\* on a label of the given width: unchanged when len * desired * 0.55 is at
\* most width - 2 * 2, and max(0.5, desired * available / estimated) otherwise.
ClaimedTextHeight(len, desired, width) ==
    LET estimated == Rat(len * desired * 55, 100)
        available == RInt(width - 4)
    IN  IF RLe(estimated, available) THEN RInt(desired)
        ELSE RMax(Rat(1, 2), RDiv(RMul(RInt(desired), available), estimated))

\* The texts drawn are the valid lines, each at the claimed height.
TextsFit(texts) ==
    LET valid == ValidLines(TheSetup.lines)
    IN  /\ Len(texts) = Len(valid)
        /\ \A k \in 1..Len(valid) :
               /\ texts[k].text = valid[k].text
               /\ texts[k].height =
                      ClaimedTextHeight(Len(valid[k].text),
                                        IF valid[k].textSizeMm = 0 THEN 2
                                        ELSE valid[k].textSizeMm,
                                        TheSetup.labelLengthMm)

\* C10 (as claimed): every text line has the claimed height, in the DXF
\* drawing and in the PDF drawing.
C10_TextFit ==
    /\ "sheetDxf" \in done => TextsFit(dxfDrawing[1].texts)
    /\ "sheetPdf" \in done => TextsFit(pdfDrawing[1].texts)

-----------------------------------------------------------------------------
(* The two packers against each other, and the margins. *)

\* A placed label of the DXF packer without its quantity field: what the PDF
\* packer records of a placed label.
Layout(placed) == [setup |-> placed.setup, x |-> placed.x, y |-> placed.y]

LayoutOf(labels) == [k \in 1..Len(labels) |-> Layout(labels[k])]

\* C18: the DXF packer and the PDF packer return the same number of sheets,
\* with the same labels in the same order at the same (x, y) on every sheet.
C18_SinglePackingEngine ==
    ("dxf" \in done /\ "pdf" \in done) =>
        /\ Len(dxfSheets) = Len(pdfSheets)
        /\ \A i \in 1..Len(dxfSheets) :
               LayoutOf(dxfSheets[i].labels) = LayoutOf(pdfSheets[i])

\* C18's case: both packers have returned two sheets or more, the first with
\* a row wrap on it.
C18_Witness ==
    /\ "dxf" \in done /\ "pdf" \in done
    /\ Len(dxfSheets) >= 2 /\ Len(pdfSheets) >= 2
    /\ \E k \in 2..Len(pdfSheets[1]) : pdfSheets[1][k].x < pdfSheets[1][k - 1].x
    /\ \E k \in 2..Len(dxfSheets[1].labels) :
           dxfSheets[1].labels[k].y < dxfSheets[1].labels[k - 1].y

\* The label lists of the sheets the packers have returned.
ReturnedSheets ==
    {DxfLabelLists(dxfSheets)[i] : i \in 1..Len(dxfSheets)}
        \cup {pdfSheets[i] : i \in 1..Len(pdfSheets)}

\* margin <= x, x + width <= sheetWidth - margin, margin <= y,
\* y + height <= sheetHeight - margin
InsideMargins(p, sheet) ==
    /\ sheet.margin <= p.x
    /\ p.x + p.setup.labelLengthMm <= sheet.width - sheet.margin
    /\ sheet.margin <= p.y
    /\ TopEdge(p) <= sheet.height - sheet.margin

\* The top-left corner of a placed label is the shelf origin
\* (margin, sheetHeight - margin).
AtShelfOrigin(p, sheet) ==
    p.x = sheet.margin /\ TopEdge(p) = sheet.height - sheet.margin

FittingLabelsInside ==
    \A labels \in ReturnedSheets : \A k \in 1..Len(labels) :
        ~Oversized(labels[k].setup, sheetConfig) =>
            InsideMargins(labels[k], sheetConfig)

\* C20 (as claimed): every placed label that fits the usable area lies inside
\* the margins, and the first label of every returned sheet has its top-left
\* corner at the shelf origin.
C20_OriginalInsideMargins ==
    /\ FittingLabelsInside
    /\ \A labels \in ReturnedSheets : AtShelfOrigin(labels[1], sheetConfig)

\* C20 (amended): every placed label that fits the usable area lies inside
\* the margins; the first label of every sheet after the first is at the
\* shelf origin, and so is the first label of the first sheet unless it is
\* wider than the usable width.
C20_InsideMargins ==
    /\ FittingLabelsInside
    /\ \A i \in 2..Len(dxfSheets) :
           AtShelfOrigin(dxfSheets[i].labels[1], sheetConfig)
    /\ \A i \in 2..Len(pdfSheets) : AtShelfOrigin(pdfSheets[i][1], sheetConfig)
    /\ \A labels \in ReturnedSheets :
           labels[1].setup.labelLengthMm <= UsableWidth(sheetConfig) =>
               AtShelfOrigin(labels[1], sheetConfig)

\* C20's case: on a sheet with a margin, both packers have filled a first
\* sheet with fitting labels up to the right and the bottom margin and have
\* started a second sheet.
C20_Witness ==
    /\ "dxf" \in done /\ "pdf" \in done
    /\ sheetConfig.margin > 0
    /\ \A k \in 1..Len(labelSetups) :
           /\ labelSetups[k].labelQuantity > 0
           /\ ~Oversized(labelSetups[k], sheetConfig)
    /\ Len(dxfSheets) >= 2 /\ Len(pdfSheets) >= 2
    /\ \E k \in 1..Len(pdfSheets[1]) :
           /\ pdfSheets[1][k].y = sheetConfig.margin
           /\ pdfSheets[1][k].x + pdfSheets[1][k].setup.labelLengthMm
                  = sheetConfig.width - sheetConfig.margin

-----------------------------------------------------------------------------
(* The order of the labels in the files of a request. *)

RECURSIVE SetupsOfFiles(_, _)
\* The setups of the placed labels of files[k..], file after file, each file
\* in the order of its sheet's list.
SetupsOfFiles(files, k) ==
    IF k > Len(files) THEN <<>>
    ELSE [j \in 1..Len(files[k].labels) |-> files[k].labels[j].setup]
             \o SetupsOfFiles(files, k + 1)

RECURSIVE KeysInOrder(_, _, _)
\* The group keys of setups[k..] in order of first appearance, after seen.
KeysInOrder(setups, k, seen) ==
    IF k > Len(setups) THEN seen
    ELSE LET key == getGroupKey(setups[k])
         IN  KeysInOrder(setups, k + 1,
                 IF \E i \in 1..Len(seen) : seen[i] = key THEN seen
                 ELSE Append(seen, key))

RECURSIVE ExpansionOf(_, _, _, _)
\* The setups of the given key among setups[k..], in input order, each
\* repeated times[k] times consecutively, k
\* being its place in the request.
ExpansionOf(setups, k, key, times) ==
    IF k > Len(setups) THEN <<>>
    ELSE (IF getGroupKey(setups[k]) = key
          THEN [i \in 1..times[k] |-> setups[k]] ELSE <<>>)
             \o ExpansionOf(setups, k + 1, key, times)

RECURSIVE GroupByGroup(_, _, _, _)
\* The expansions of the groups keys[g..], one group after the other.
GroupByGroup(setups, keys, g, times) ==
    IF g > Len(keys) THEN <<>>
    ELSE ExpansionOf(setups, 1, keys[g], times)
             \o GroupByGroup(setups, keys, g + 1, times)

StableOrder(setups, times) ==
    GroupByGroup(setups, KeysInOrder(setups, 1, <<>>), 1, times)

\* The labelQuantity of each setup of the request.
Quantities(setups) == [k \in 1..Len(setups) |-> setups[k].labelQuantity]

\* The number of labels the packers expand each setup to.
EffectiveQuantities(setups) ==
    [k \in 1..Len(setups) |-> EffectiveQuantity(setups[k])]

\* The files of a request list their pages 1, 2, ... group after group.
InPageOrder(files) ==
    \A k \in 1..Len(files) :
        files[k].page =
            IF k > 1 /\ files[k - 1].key = files[k].key
            THEN files[k - 1].page + 1 ELSE 1

\* C19 (as claimed): the placed labels of the generated files, group after
\* group in order of first appearance of the key and page after page within
\* a group, are the setups of each group in input order, each repeated
\* labelQuantity times.
C19_StableOrder ==
    /\ "dxfFiles" \in done =>
          /\ InPageOrder(dxfFiles)
          /\ SetupsOfFiles(dxfFiles, 1) = StableOrder(labelSetups, Quantities(labelSetups))
    /\ "pdfFiles" \in done =>
          /\ InPageOrder(pdfFiles)
          /\ SetupsOfFiles(pdfFiles, 1) = StableOrder(labelSetups, Quantities(labelSetups))

\* C19, what the generators do instead: the same order, with each setup
\* repeated labelQuantity times, and once when its labelQuantity is 0.
C19_StableOrderOfPlaced ==
    /\ "dxfFiles" \in done =>
          /\ InPageOrder(dxfFiles)
          /\ SetupsOfFiles(dxfFiles, 1)
                 = StableOrder(labelSetups, EffectiveQuantities(labelSetups))
    /\ "pdfFiles" \in done =>
          /\ InPageOrder(pdfFiles)
          /\ SetupsOfFiles(pdfFiles, 1)
                 = StableOrder(labelSetups, EffectiveQuantities(labelSetups))

\* A case of C19 away from quantity 0: three setups, the first and the third
\* of one group and differing from each other, the second of another group,
\* with the first group on two pages or more.
C19_Witness ==
    /\ "dxfFiles" \in done /\ "pdfFiles" \in done
    /\ Len(labelSetups) = 3
    /\ \A k \in 1..3 : labelSetups[k].labelQuantity > 0
    /\ getGroupKey(labelSetups[1]) = getGroupKey(labelSetups[3])
    /\ getGroupKey(labelSetups[1]) # getGroupKey(labelSetups[2])
    /\ labelSetups[1] # labelSetups[3]
    /\ Len(dxfFiles) >= 3
    /\ dxfFiles[2].key = dxfFiles[1].key

-----------------------------------------------------------------------------
(* JavaScript numbers of the path functions: an exact rational <<n, d>>,    *)
(* NaN, or undefined (None) for an array element or a field that is absent. *)

NaN == <<0, 0>>

IsNum(v) == Len(v) = 2 /\ v[2] # 0

\* a + b, a - b and a * b of JavaScript: NaN when an operand is NaN or
\* undefined.
JAdd(a, b) == IF IsNum(a) /\ IsNum(b) THEN RAdd(a, b) ELSE NaN

JSub(a, b) == IF IsNum(a) /\ IsNum(b) THEN RSub(a, b) ELSE NaN

JMul(a, b) == IF IsNum(a) /\ IsNum(b) THEN RMul(a, b) ELSE NaN

\* Number(s) for a token s: an optional "-" and digits give the integer, any
\* other token gives NaN.  (The texts of the model carry no ".", "+" or
\* exponent.)
Number(s) ==
    LET neg == Len(s) >= 1 /\ s[1] = "-"
        first == IF neg THEN 2 ELSE 1
        n == DigitRun(s, first)
    IN  IF n = 0 \/ first + n - 1 # Len(s) THEN NaN
        ELSE RInt((IF neg THEN 0 - 1 ELSE 1) * DigitsValue(s, first, n))

-----------------------------------------------------------------------------
(* parseSvgPath. *)

\* The letters of the regular expression's class [MmLlHhVvCcSsQqTtAaZz].
RegexLetters ==
    {"M", "m", "L", "l", "H", "h", "V", "v", "C", "c",
     "S", "s", "Q", "q", "T", "t", "A", "a", "Z", "z"}

\* The first position from i on that holds a letter of the class, or
\* Len(d) + 1.
RECURSIVE NextLetter(_, _)
NextLetter(d, i) ==
    IF i > Len(d) \/ d[i] \in RegexLetters THEN i ELSE NextLetter(d, i + 1)

IsSeparator(c) == c = " " \/ c = ","

\* .trim().split(/[\s,]+/).filter((s) => s !== ""): the maximal runs of
\* s[i..] that hold no blank and no comma, after the run token.
RECURSIVE TokensFrom(_, _, _)
TokensFrom(s, i, token) ==
    IF i > Len(s) THEN (IF token = <<>> THEN <<>> ELSE <<token>>)
    ELSE IF IsSeparator(s[i])
         THEN (IF token = <<>> THEN <<>> ELSE <<token>>) \o TokensFrom(s, i + 1, <<>>)
         ELSE TokensFrom(s, i + 1, Append(token, s[i]))

\* match[2] ... .map(Number)
ArgsOf(run) ==
    LET tokens == TokensFrom(run, 1, <<>>)
    IN  [k \in 1..Len(tokens) |-> Number(tokens[k])]

\* args[i] of JavaScript, i from 0: undefined beyond the end.
Arg(args, i) == IF i + 1 <= Len(args) THEN args[i + 1] ELSE None

\* for (let i = 0; i < args.length; i += 2) commands.push({ type, x, y })
RECURSIVE PairCommands(_, _, _)
PairCommands(type, args, i) ==
    IF i >= Len(args) THEN <<>>
    ELSE <<[type |-> type, x |-> Arg(args, i), y |-> Arg(args, i + 1)]>>
             \o PairCommands(type, args, i + 2)

\* for (let i = 0; i < args.length; i += 6) commands.push({ type, x1, ... })
RECURSIVE CurveCommands(_, _, _)
CurveCommands(type, args, i) ==
    IF i >= Len(args) THEN <<>>
    ELSE <<[type |-> type,
            x1 |-> Arg(args, i), y1 |-> Arg(args, i + 1),
            x2 |-> Arg(args, i + 2), y2 |-> Arg(args, i + 3),
            x |-> Arg(args, i + 4), y |-> Arg(args, i + 5)]>>
             \o CurveCommands(type, args, i + 6)

\* The switch on the letter of one match.
CommandsOfMatch(type, args) ==
    IF type \in {"M", "m", "L", "l"} THEN PairCommands(type, args, 0)
    ELSE IF type \in {"H", "h"}
         THEN [k \in 1..Len(args) |-> [type |-> type, x |-> args[k]]]
    ELSE IF type \in {"V", "v"}
         THEN [k \in 1..Len(args) |-> [type |-> type, y |-> args[k]]]
    ELSE IF type \in {"C", "c"} THEN CurveCommands(type, args, 0)
    ELSE IF type \in {"Z", "z"} THEN <<[type |-> type]>>
    ELSE <<>>

\* while ((match = regex.exec(d)) !== null), the search resuming at i.
RECURSIVE ParseFrom(_, _)
ParseFrom(d, i) ==
    LET j == NextLetter(d, i)
        k == NextLetter(d, j + 1)
    IN  IF j > Len(d) THEN <<>>
        ELSE CommandsOfMatch(d[j], ArgsOf(SubSeq(d, j + 1, k - 1)))
                 \o ParseFrom(d, k)

parseSvgPath(d) == ParseFrom(d, 1)

-----------------------------------------------------------------------------
(* sampleBezier. *)

\* segments: number = 10
SegmentsOrDefault(segments) == IF segments = None THEN 10 ELSE segments[1]

\* mt3 * p0 + 3 * mt2 * t * p1 + 3 * mt * t2 * p2 + t3 * p3 for one axis.
BezierAt(t, a0, a1, a2, a3) ==
    LET t2 == RMul(t, t)
        t3 == RMul(t2, t)
        mt == RSub(RInt(1), t)
        mt2 == RMul(mt, mt)
        mt3 == RMul(mt2, mt)
    IN  JAdd(JAdd(JAdd(JMul(mt3, a0),
                       JMul(RMul(RMul(RInt(3), mt2), t), a1)),
                  JMul(RMul(RMul(RInt(3), mt), t2), a2)),
             JMul(t3, a3))

\* for (let i = 1; i <= segments; i++): the point at t = i / segments.
sampleBezier(p0, p1, p2, p3, segments) ==
    LET n == SegmentsOrDefault(segments)
    IN  [i \in 1..n |->
            <<BezierAt(Rat(i, n), p0[1], p1[1], p2[1], p3[1]),
              BezierAt(Rat(i, n), p0[2], p1[2], p2[2], p3[2])>>]

-----------------------------------------------------------------------------
(* svgPathToPolylinePoints. *)

\* const transformY = (y) => (flipY ? height - y : y)
transformY(y, flip, height) == IF flip THEN JSub(RInt(height), y) ELSE y

\* The locals before the loop; next is the index of the command the loop
\* handles next.
BuildStart ==
    [polylines |-> <<>>, currentPolyline |-> <<>>,
     currentX |-> RInt(0), currentY |-> RInt(0),
     startX |-> RInt(0), startY |-> RInt(0), next |-> 1]

\* if (currentPolyline.length > 0) polylines.push(currentPolyline)
Flush(st) ==
    IF Len(st.currentPolyline) > 0
    THEN Append(st.polylines, st.currentPolyline)
    ELSE st.polylines

\* case "M" and case "m": the pen moves to (x, y) and a polyline starts there.
MoveTo(st, x, y, flip, height) ==
    [st EXCEPT !.polylines = Flush(st),
               !.currentX = x, !.currentY = y,
               !.startX = x, !.startY = y,
               !.currentPolyline = <<<<x, transformY(y, flip, height)>>>>]

\* case "L", "l", "H", "h", "V", "v": the pen goes to (x, y) and the point
\* is pushed.
LineTo(st, x, y, flip, height) ==
    [st EXCEPT !.currentX = x, !.currentY = y,
               !.currentPolyline = Append(@, <<x, transformY(y, flip, height)>>)]

\* case "C" and case "c", with the control points and the end point absolute.
CurveTo(st, x1, y1, x2, y2, x, y, flip, height) ==
    LET bezierPts ==
            sampleBezier(<<st.currentX, transformY(st.currentY, flip, height)>>,
                         <<x1, transformY(y1, flip, height)>>,
                         <<x2, transformY(y2, flip, height)>>,
                         <<x, transformY(y, flip, height)>>,
                         Some(12))
    IN  [st EXCEPT !.currentPolyline = @ \o bezierPts,
                   !.currentX = x, !.currentY = y]

\* case "Z" and case "z"
ClosePathUnflipped(st, flip, height) ==
    [st EXCEPT !.currentPolyline = Append(@, <<st.startX, st.startY>>),
               !.currentX = st.startX, !.currentY = st.startY]

ClosePath(st, flip, height) ==
    [st EXCEPT !.currentPolyline =
                   Append(@, <<st.startX, transformY(st.startY, flip, height)>>),
               !.currentX = st.startX, !.currentY = st.startY]

\* One iteration of the loop: the switch on cmd.type.
BuildStep(st, cmd, flip, height) ==
    LET X == st.currentX
        Y == st.currentY
        after ==
            CASE cmd.type = "M" -> MoveTo(st, cmd.x, cmd.y, flip, height)
              [] cmd.type = "m" ->
                     MoveTo(st, JAdd(X, cmd.x), JAdd(Y, cmd.y), flip, height)
              [] cmd.type = "L" -> LineTo(st, cmd.x, cmd.y, flip, height)
              [] cmd.type = "l" ->
                     LineTo(st, JAdd(X, cmd.x), JAdd(Y, cmd.y), flip, height)
              [] cmd.type = "H" -> LineTo(st, cmd.x, Y, flip, height)
              [] cmd.type = "h" -> LineTo(st, JAdd(X, cmd.x), Y, flip, height)
              [] cmd.type = "V" -> LineTo(st, X, cmd.y, flip, height)
              [] cmd.type = "v" -> LineTo(st, X, JAdd(Y, cmd.y), flip, height)
              [] cmd.type = "C" ->
                     CurveTo(st, cmd.x1, cmd.y1, cmd.x2, cmd.y2, cmd.x, cmd.y,
                             flip, height)
              [] cmd.type = "c" ->
                     CurveTo(st, JAdd(X, cmd.x1), JAdd(Y, cmd.y1),
                             JAdd(X, cmd.x2), JAdd(Y, cmd.y2),
                             JAdd(X, cmd.x), JAdd(Y, cmd.y), flip, height)
              [] cmd.type \in {"Z", "z"} -> ClosePath(st, flip, height)
              [] OTHER -> st
    IN  [after EXCEPT !.next = st.next + 1]

RECURSIVE BuildLoop(_, _, _, _)
\* for (const cmd of commands), from the locals st.
BuildLoop(cmds, st, flip, height) ==
    IF st.next > Len(cmds) THEN st
    ELSE BuildLoop(cmds, BuildStep(st, cmds[st.next], flip, height), flip, height)

svgPathToPolylinePoints(d, flip, height) ==
    Flush(BuildLoop(parseSvgPath(d), BuildStart, flip, height))

-----------------------------------------------------------------------------
(* Path texts.  A text is written piece by piece: a letter, its numbers     *)
(* separated by a comma or a blank, and a blank after the last number, as   *)
(* in "M0,0 L10,0 L10,10 Z".                                               *)

\* String(n) for an integer n.
IntToString(n) == IF n < 0 THEN <<"-">> \o NatToString(0 - n) ELSE NatToString(n)

RECURSIVE NumbersText(_, _)
\* numbers[i..] as text: a comma before every second number, a blank before
\* the others but the first, and a blank at the end.
NumbersText(numbers, i) ==
    IF i > Len(numbers) THEN (IF Len(numbers) = 0 THEN <<>> ELSE <<" ">>)
    ELSE (IF i = 1 THEN <<>> ELSE IF i % 2 = 0 THEN <<",">> ELSE <<" ">>)
             \o IntToString(numbers[i]) \o NumbersText(numbers, i + 1)

Piece(letter, numbers) == [letter |-> letter, numbers |-> numbers]

PieceText(piece) == <<piece.letter>> \o NumbersText(piece.numbers, 1)

RECURSIVE TextOfPieces(_, _)
TextOfPieces(pieces, k) ==
    IF k > Len(pieces) THEN <<>>
    ELSE PieceText(pieces[k]) \o TextOfPieces(pieces, k + 1)

\* The path of the specification's example, "M0,0 L10,0 L10,10 Z".
ExamplePath ==
    <<Piece("M", <<0, 0>>), Piece("L", <<10, 0>>), Piece("L", <<10, 10>>),
      Piece("Z", <<>>)>>

-----------------------------------------------------------------------------
(* The parser specification: parseSvgPath is run on a text of up to        *)
(* MaxPathPieces pieces, with full and partial groups of numbers, a letter *)
(* of the regular expression that is no command (S) and a letter outside   *)
(* it (X).                                                                *)

MaxPathPieces == 2

\* The numbers a piece of the parser runs is written with: the first k.
NumberPool == <<1, 2, -3, 4, 5, 6, 7>>

FirstNumbers(k) == SubSeq(NumberPool, 1, k)

ParsePieces ==
    {Piece(l, FirstNumbers(k)) : l \in {"M", "m", "L", "l"}, k \in {0, 2, 3, 4}}
        \cup {Piece(l, FirstNumbers(k)) : l \in {"H", "h", "V", "v"}, k \in {0, 1, 2}}
        \cup {Piece(l, FirstNumbers(k)) : l \in {"C", "c"}, k \in {6, 7}}
        \cup {Piece(l, FirstNumbers(k)) : l \in {"Z", "z", "S"}, k \in {0, 2}}
        \cup {Piece("X", FirstNumbers(k)) : k \in {0, 1}}

IdleLabels ==
    /\ labelSetups = <<>>
    /\ sheetConfig = DEFAULT_SHEET
    /\ sheetLabels = <<>> /\ dxfDrawing = <<>> /\ pdfDrawing = <<>>
    /\ IdlePack
    /\ IdleExport

\* No path function but the one about to run has been called.
IdleOutline ==
    /\ canvasHeight = 0
    /\ flipY = FALSE
    /\ builder = <<>>
    /\ outline = <<>>
    /\ outlineFlipped = <<>>
    /\ outlinePlain = <<>>

IdleCurve == curve = <<>> /\ curvePoints = <<>>

InitParse ==
    /\ pathPieces \in SeqsUpTo(ParsePieces, MaxPathPieces) \cup {ExamplePath}
    /\ pathText = TextOfPieces(pathPieces, 1)
    /\ commands = <<>>
    /\ done = {}
    /\ IdleOutline
    /\ IdleCurve
    /\ IdleLabels
    /\ IdleHandler

ParseSvgPath ==
    /\ "parseSvgPath" \notin done
    /\ commands' = parseSvgPath(pathText)
    /\ done' = done \cup {"parseSvgPath"}
    /\ UNCHANGED <<labelSetups, sheetConfig, dxfSheets, pdfSheets, dxfFiles,
                   pdfFiles, sheetLabels, dxfDrawing, pdfDrawing, pathPieces,
                   pathText, canvasHeight, flipY, builder, outline,
                   outlineFlipped, outlinePlain, curve, curvePoints,
                   handlerVars>>

NextParse == ParseSvgPath

SpecParse == InitParse /\ [][NextParse]_vars

-----------------------------------------------------------------------------
(* What the claims about the parser speak of. *)

\* The letters of the supported commands: move, line, horizontal, vertical,
\* cubic curve and close.
SupportedLetters == {"M", "m", "L", "l", "H", "h", "V", "v", "C", "c", "Z", "z"}

\* The coordinates of a command of the letter, in the order of its numbers.
FieldsOf(letter) ==
    IF letter \in {"M", "m", "L", "l"} THEN <<"x", "y">>
    ELSE IF letter \in {"H", "h"} THEN <<"x">>
    ELSE IF letter \in {"V", "v"} THEN <<"y">>
    ELSE IF letter \in {"C", "c"} THEN <<"x1", "y1", "x2", "y2", "x", "y">>
    ELSE <<>>

FieldIndex(fields, f) == CHOOSE i \in 1..Len(fields) : fields[i] = f

\* The g-th group of the numbers of a piece as a command: the coordinate in
\* place i of the group is the number in that place, and undefined past the
\* last number.
GroupCommand(piece, g) ==
    LET fields == FieldsOf(piece.letter)
        at(i) == (g - 1) * Len(fields) + i
    IN  [f \in {"type"} \cup {fields[i] : i \in 1..Len(fields)} |->
            IF f = "type" THEN piece.letter
            ELSE IF at(FieldIndex(fields, f)) <= Len(piece.numbers)
                 THEN RInt(piece.numbers[at(FieldIndex(fields, f))])
                 ELSE None]

\* One command per group of the piece's numbers, the last group possibly
\* short; one command for a close, whatever follows it.
GroupCommands(piece) ==
    LET size == Len(FieldsOf(piece.letter))
        k == Len(piece.numbers)
    IN  IF size = 0 THEN <<[type |-> piece.letter]>>
        ELSE [g \in 1..((k + size - 1) \div size) |-> GroupCommand(piece, g)]

RECURSIVE GroupedFrom(_, _)
GroupedFrom(pieces, i) ==
    IF i > Len(pieces) THEN <<>>
    ELSE GroupCommands(pieces[i]) \o GroupedFrom(pieces, i + 1)

\* Every coordinate of the command is a defined number.
AllDefined(cmd) == \A f \in DOMAIN cmd : f # "type" => IsNum(cmd[f])

Parsed == "parseSvgPath" \in done

OnlySupported == \A i \in 1..Len(pathPieces) : pathPieces[i].letter \in SupportedLetters

FullGroups ==
    \A i \in 1..Len(pathPieces) :
        LET size == Len(FieldsOf(pathPieces[i].letter))
        IN  size > 0 => Len(pathPieces[i].numbers) % size = 0

\* C14 (as claimed): of a text of supported letters, each followed by any
\* count of numbers, the commands are one per group of the letter's size, in
\* the order of the text, each with the coordinates of its variant, and every
\* coordinate is a defined number.
C14_ParserGrouping ==
    (Parsed /\ OnlySupported) =>
        /\ commands = GroupedFrom(pathPieces, 1)
        /\ \A k \in 1..Len(commands) : AllDefined(commands[k])

\* C14, what the parser does instead: the commands are one per group, the
\* last group of a letter possibly short and its command then without the
\* missing coordinates; every coordinate is defined when the count of numbers
\* of every letter is a multiple of its group size.
C14_ParserGroupingOfFullRuns ==
    (Parsed /\ OnlySupported) =>
        /\ commands = GroupedFrom(pathPieces, 1)
        /\ FullGroups => \A k \in 1..Len(commands) : AllDefined(commands[k])

\* A case of C14 with full groups: a letter followed by two pairs, and a
\* curve, have been parsed to three commands.
C14_Witness ==
    /\ Parsed
    /\ Len(pathPieces) = 2
    /\ pathPieces[1].letter = "l" /\ Len(pathPieces[1].numbers) = 4
    /\ pathPieces[2].letter = "C"
    /\ FullGroups
    /\ Len(commands) = 3
    /\ commands[2] = [type |-> "l", x |-> RInt(0 - 3), y |-> RInt(4)]

\* The pieces without the i-th.
WithoutPiece(pieces, i) ==
    SubSeq(pieces, 1, i - 1) \o SubSeq(pieces, i + 1, Len(pieces))

\* C15 (as claimed): a letter that is no supported command adds no command,
\* and the commands of the text are those of the text without the letter and
\* the numbers that follow it.
C15_UnknownLettersIgnored ==
    Parsed =>
        \A i \in 1..Len(pathPieces) :
            pathPieces[i].letter \notin SupportedLetters =>
                commands = parseSvgPath(TextOfPieces(WithoutPiece(pathPieces, i), 1))

\* C15, what the parser does instead: the same for a letter the regular
\* expression knows (S, Q, T, A in either case), and for any other letter
\* when no letter of the regular expression stands before it.
C15_SkippedLettersIgnored ==
    Parsed =>
        \A i \in 1..Len(pathPieces) :
            (/\ pathPieces[i].letter \notin SupportedLetters
             /\ \/ pathPieces[i].letter \in RegexLetters
                \/ \A j \in 1..(i - 1) : pathPieces[j].letter \notin RegexLetters) =>
                commands = parseSvgPath(TextOfPieces(WithoutPiece(pathPieces, i), 1))

\* A case of C15 that is ignored: a move, and after it an S with numbers.
C15_Witness ==
    /\ Parsed
    /\ Len(pathPieces) = 2
    /\ pathPieces[1].letter = "M" /\ Len(pathPieces[1].numbers) = 2
    /\ pathPieces[2].letter = "S" /\ Len(pathPieces[2].numbers) = 2
    /\ commands = <<[type |-> "M", x |-> RInt(1), y |-> RInt(2)]>>

-----------------------------------------------------------------------------
(* The curve specification: sampleBezier is called on four points, with a   *)
(* count of segments or without one.                                       *)

MaxSegments == 3

CurveEnds == {<<RInt(0), RInt(0)>>, <<RInt(3), RInt(1)>>, <<RInt(0 - 2), RInt(4)>>}

\* The segments argument: omitted, 1..MaxSegments, or the 12 of the callers.
SegmentCounts == {None, Some(12)} \cup {Some(n) : n \in 1..MaxSegments}

InitCurve ==
    /\ curve \in [p0 : CurveEnds, p1 : CurveEnds, p2 : CurveEnds, p3 : CurveEnds,
                  segments : SegmentCounts]
    /\ curvePoints = <<>>
    /\ done = {}
    /\ pathPieces = <<>>
    /\ pathText = <<>>
    /\ commands = <<>>
    /\ IdleOutline
    /\ IdleLabels
    /\ IdleHandler

SampleBezier ==
    /\ "sampleBezier" \notin done
    /\ curvePoints' = sampleBezier(curve.p0, curve.p1, curve.p2, curve.p3,
                                   curve.segments)
    /\ done' = done \cup {"sampleBezier"}
    /\ UNCHANGED <<labelSetups, sheetConfig, dxfSheets, pdfSheets, dxfFiles,
                   pdfFiles, sheetLabels, dxfDrawing, pdfDrawing, pathPieces,
                   pathText, canvasHeight, flipY, commands, builder, outline,
                   outlineFlipped, outlinePlain, curve, handlerVars>>

NextCurve == SampleBezier

SpecCurve == InitCurve /\ [][NextCurve]_vars

\* a + t (b - a)
Lerp(a, b, t) == RAdd(a, RMul(t, RSub(b, a)))

\* The cubic Bezier value of one axis at t, by repeated interpolation.
Casteljau(t, a0, a1, a2, a3) ==
    LET b0 == Lerp(a0, a1, t)
        b1 == Lerp(a1, a2, t)
        b2 == Lerp(a2, a3, t)
    IN  Lerp(Lerp(b0, b1, t), Lerp(b1, b2, t), t)

\* The i-th of n points of the curve: its value at t = i / n.
CurvePoint(c, i, n) ==
    <<Casteljau(Rat(i, n), c.p0[1], c.p1[1], c.p2[1], c.p3[1]),
      Casteljau(Rat(i, n), c.p0[2], c.p1[2], c.p2[2], c.p3[2])>>

\* The points returned are n, the i-th the curve's value at t = i / n, so
\* that the first is the value at 1 / n, not the start point's, and the last
\* is p3.
SampledIn(n) ==
    /\ Len(curvePoints) = n
    /\ \A i \in 1..n : curvePoints[i] = CurvePoint(curve, i, n)
    /\ curvePoints[n] = curve.p3

Sampled == "sampleBezier" \in done

\* C13 (as claimed): sampleBezier returns `segments` points, the i-th the
\* curve's value at t = i / segments and the last p3; 12 points when segments
\* is omitted.
C13_CurveFlattening ==
    Sampled =>
        SampledIn(IF curve.segments = None THEN 12 ELSE curve.segments[1])

\* C13, what sampleBezier does instead: the same, with 10 points when
\* segments is omitted.
C13_CurveFlatteningByTen ==
    Sampled =>
        SampledIn(IF curve.segments = None THEN 10 ELSE curve.segments[1])

\* A case of C13 with segments given: three points of a curve whose points
\* differ, the second of them off the lattice.
C13_Witness ==
    /\ Sampled
    /\ curve.segments = Some(3)
    /\ curve.p0 # curve.p1 /\ curve.p1 # curve.p2 /\ curve.p2 # curve.p3
    /\ curve.p0 # curve.p3
    /\ Len(curvePoints) = 3
    /\ curvePoints[2][1][2] # 1

-----------------------------------------------------------------------------
(* The outline specification: svgPathToPolylinePoints runs on a text of up  *)
(* to MaxCommands commands, one loop iteration at a time.                  *)

MaxCommands == 3

\* One well-formed piece for every supported letter.
OutlinePieces ==
    {Piece("M", <<4, 2>>), Piece("m", <<1, 3>>),
     Piece("L", <<10, 0>>), Piece("l", <<0 - 2, 1>>),
     Piece("H", <<7>>), Piece("h", <<3>>),
     Piece("V", <<5>>), Piece("v", <<0 - 1>>),
     Piece("C", <<1, 2, 3, 4, 5, 6>>), Piece("c", <<1, 0, 2, 1, 3, 3>>),
     Piece("Z", <<>>), Piece("z", <<>>)}

OutlinePaths == SeqsUpTo(OutlinePieces, MaxCommands) \cup {ExamplePath}

\* (flipY, height): the defaults of a caller that does not flip, and a flip
\* on a canvas of height 10.
FlipChoices == {<<FALSE, 0>>, <<TRUE, 10>>}

\* The state at the head of the loop, before the first command.
InitOutline ==
    /\ pathPieces \in OutlinePaths
    /\ pathText = TextOfPieces(pathPieces, 1)
    /\ \E f \in FlipChoices : flipY = f[1] /\ canvasHeight = f[2]
    /\ commands = parseSvgPath(pathText)
    /\ builder = BuildStart
    /\ outline = <<>>
    /\ outlineFlipped = <<>>
    /\ outlinePlain = <<>>
    /\ done = {}
    /\ IdleCurve
    /\ IdleLabels
    /\ IdleHandler

\* One iteration of for (const cmd of commands).
HandleCommand ==
    /\ "svgPathToPolylinePoints" \notin done
    /\ builder.next <= Len(commands)
    /\ builder' = BuildStep(builder, commands[builder.next], flipY, canvasHeight)
    /\ UNCHANGED <<labelSetups, sheetConfig, dxfSheets, pdfSheets, dxfFiles,
                   pdfFiles, sheetLabels, dxfDrawing, pdfDrawing, done,
                   pathPieces, pathText, canvasHeight, flipY, commands, outline,
                   outlineFlipped, outlinePlain, curve, curvePoints,
                   handlerVars>>

\* The end of the input: the last flush and the return.
ReturnPolylines ==
    /\ "svgPathToPolylinePoints" \notin done
    /\ builder.next > Len(commands)
    /\ outline' = Flush(builder)
    /\ done' = done \cup {"svgPathToPolylinePoints"}
    /\ UNCHANGED <<labelSetups, sheetConfig, dxfSheets, pdfSheets, dxfFiles,
                   pdfFiles, sheetLabels, dxfDrawing, pdfDrawing, pathPieces,
                   pathText, canvasHeight, flipY, commands, builder,
                   outlineFlipped, outlinePlain, curve, curvePoints,
                   handlerVars>>

NextOutline == HandleCommand \/ ReturnPolylines

SpecOutline == InitOutline /\ [][NextOutline]_vars

-----------------------------------------------------------------------------
(* What the claim about the state machine of the outline speaks of. *)

\* The state of the machine: a polyline is being built, or none is.
Building(b) == Len(b.currentPolyline) > 0

\* The step handles a command: the loop goes on to the next one.
CommandStep == builder' # builder

TheCommand == commands[builder.next]

IsPrefix(s, u) == Len(s) <= Len(u) /\ SubSeq(u, 1, Len(s)) = s

\* A move flushes the polyline being built, if any, and starts one of one
\* point.
MoveEffect ==
    /\ builder'.polylines =
           IF Building(builder) THEN Append(builder.polylines, builder.currentPolyline)
           ELSE builder.polylines
    /\ Len(builder'.currentPolyline) = 1

\* A line, horizontal, vertical or curve appends points to the current
\* polyline and leaves the state as it is.
AppendEffect ==
    /\ builder'.polylines = builder.polylines
    /\ IsPrefix(builder.currentPolyline, builder'.currentPolyline)
    /\ Len(builder'.currentPolyline) > Len(builder.currentPolyline)
    /\ Building(builder') = Building(builder)

\* A close appends the start point of the current polyline and neither
\* flushes the polyline nor changes the state.
CloseEffect ==
    /\ builder'.polylines = builder.polylines
    /\ Building(builder') = Building(builder)
    /\ Building(builder) =>
           builder'.currentPolyline =
               Append(builder.currentPolyline, builder.currentPolyline[1])

CommandEffect ==
    CommandStep =>
        /\ TheCommand.type \in {"M", "m"} => MoveEffect
        /\ TheCommand.type \in {"L", "l", "H", "h", "V", "v", "C", "c"} => AppendEffect
        /\ TheCommand.type \in {"Z", "z"} => CloseEffect

\* The end of the input flushes the current polyline if it is not empty.
ReturnEffect ==
    (done' # done) =>
        outline' = IF Building(builder)
                   THEN Append(builder.polylines, builder.currentPolyline)
                   ELSE builder.polylines

NoEmptyPolyline ==
    /\ \A k \in 1..Len(builder.polylines) : Len(builder.polylines[k]) > 0
    /\ \A k \in 1..Len(outline) : Len(outline[k]) > 0

\* "M0,0 L10,0 L10,10 Z" without flip yields the one polyline
\* [(0,0), (10,0), (10,10), (0,0)].
ExampleOutline ==
    (pathPieces = ExamplePath /\ ~flipY /\ "svgPathToPolylinePoints" \in done) =>
        outline = <<<<<<RInt(0), RInt(0)>>, <<RInt(10), RInt(0)>>,
                      <<RInt(10), RInt(10)>>, <<RInt(0), RInt(0)>>>>>>

StartsWithMove == commands = <<>> \/ commands[1].type \in {"M", "m"}

\* C11 (as claimed): for every command sequence a move flushes and starts a
\* polyline of one point, the other commands append and leave the state (no
\* current polyline / building) as it is, a close appends the start point,
\* the end of the input flushes; no polyline is empty and the example path
\* gives its one polyline of four points.
C11_OutlineStateMachine ==
    /\ [](NoEmptyPolyline /\ ExampleOutline)
    /\ [][CommandEffect /\ ReturnEffect]_vars

\* C11, what the loop does instead: the same for every command sequence that
\* starts with a move; a line, curve or close that comes before any move
\* starts a polyline by itself.
C11_OutlineStateMachineAfterMove ==
    /\ [](NoEmptyPolyline /\ ExampleOutline)
    /\ [][StartsWithMove => (CommandEffect /\ ReturnEffect)]_vars

\* A case of C11 that starts with a move: a move, a line and a second move
\* have been handled, the second move has flushed a polyline of two points,
\* and both polylines are returned.
C11_Witness ==
    /\ "svgPathToPolylinePoints" \in done
    /\ Len(commands) = 3
    /\ commands[1].type = "M" /\ commands[2].type = "l" /\ commands[3].type = "m"
    /\ Len(outline) = 2
    /\ Len(outline[1]) = 2 /\ Len(outline[2]) = 1

-----------------------------------------------------------------------------
(* The flip specification: svgPathToPolylinePoints is called twice on one   *)
(* text of up to MaxFlipCommands commands, with flipY enabled and with     *)
(* flipY disabled.                                                         *)

MaxFlipCommands == 2

\* The pieces of the outline runs, and a line that lacks its y.
FlipPieces == OutlinePieces \cup {Piece("l", <<2>>)}

CanvasHeights == {0, 10}

\* A relative move, a relative curve and a close.
ClosedCurvePath ==
    <<Piece("m", <<1, 3>>), Piece("c", <<1, 0, 2, 1, 3, 3>>), Piece("Z", <<>>)>>

InitFlip ==
    /\ pathPieces \in SeqsUpTo(FlipPieces, MaxFlipCommands)
                         \cup {ExamplePath, ClosedCurvePath}
    /\ pathText = TextOfPieces(pathPieces, 1)
    /\ canvasHeight \in CanvasHeights
    /\ flipY = FALSE
    /\ commands = <<>>
    /\ builder = <<>>
    /\ outline = <<>>
    /\ outlineFlipped = <<>>
    /\ outlinePlain = <<>>
    /\ done = {}
    /\ IdleCurve
    /\ IdleLabels
    /\ IdleHandler

PolylinesFlipped ==
    /\ "flipped" \notin done
    /\ outlineFlipped' = svgPathToPolylinePoints(pathText, TRUE, canvasHeight)
    /\ done' = done \cup {"flipped"}
    /\ UNCHANGED <<labelSetups, sheetConfig, dxfSheets, pdfSheets, dxfFiles,
                   pdfFiles, sheetLabels, dxfDrawing, pdfDrawing, pathPieces,
                   pathText, canvasHeight, flipY, commands, builder, outline,
                   outlinePlain, curve, curvePoints, handlerVars>>

PolylinesPlain ==
    /\ "plain" \notin done
    /\ outlinePlain' = svgPathToPolylinePoints(pathText, FALSE, canvasHeight)
    /\ done' = done \cup {"plain"}
    /\ UNCHANGED <<labelSetups, sheetConfig, dxfSheets, pdfSheets, dxfFiles,
                   pdfFiles, sheetLabels, dxfDrawing, pdfDrawing, pathPieces,
                   pathText, canvasHeight, flipY, commands, builder, outline,
                   outlineFlipped, curve, curvePoints, handlerVars>>

NextFlip == PolylinesFlipped \/ PolylinesPlain

SpecFlip == InitFlip /\ [][NextFlip]_vars

\* A polyline with every point (x, y) replaced by (x, H - y).
Flipped(points, H) ==
    [k \in 1..Len(points) |-> <<points[k][1], JSub(RInt(H), points[k][2])>>]

\* C12: the polylines returned with flipY enabled are those returned with
\* flipY disabled with every point (x, y) replaced by (x, H - y): as many
\* polylines, as many points in each, in the same order.
C12_UniformFlip ==
    ("flipped" \in done /\ "plain" \in done) =>
        /\ Len(outlineFlipped) = Len(outlinePlain)
        /\ \A k \in 1..Len(outlinePlain) :
               outlineFlipped[k] = Flipped(outlinePlain[k], canvasHeight)

\* C12's case: a relative move, a relative curve and a close have been
\* flattened both ways to one polyline of fourteen points, on a canvas of
\* height 10.
C12_Witness ==
    /\ "flipped" \in done /\ "plain" \in done
    /\ canvasHeight = 10
    /\ Len(pathPieces) = 3
    /\ pathPieces[1].letter = "m" /\ pathPieces[2].letter = "c"
    /\ pathPieces[3].letter = "Z"
    /\ Len(outlinePlain) = 1 /\ Len(outlinePlain[1]) = 14
    /\ outlineFlipped # outlinePlain

-----------------------------------------------------------------------------
(* The handlers of POST /export/dxf and POST /export/pdf.  A handler runs   *)
(* from one await to the next in one step; pc names the await it stands at. *)

MaxHandlerSetups == 2

\* A response: the status, the error message ("" when there is none), what
\* the body is ("none", "zip", "dxf" or "svg") and the entries of a zip.
ErrorResponse(status, message) ==
    [status |-> status, error |-> message, body |-> "none", entries |-> <<>>]

FileResponse(body, entries) ==
    [status |-> 200, error |-> "", body |-> body, entries |-> entries]

\* zip.file(name, content): an entry of the same name is replaced.
ZipFile(entries, name, content) ==
    IF \E i \in 1..Len(entries) : entries[i].filename = name
    THEN [i \in 1..Len(entries) |->
             IF entries[i].filename = name
             THEN [filename |-> name, content |-> content] ELSE entries[i]]
    ELSE Append(entries, [filename |-> name, content |-> content])

RECURSIVE ZipFiles(_, _, _)
\* for (const file of files) zip.file(file.filename, file.content)
ZipFiles(entries, files, k) ==
    IF k > Len(files) THEN entries
    ELSE ZipFiles(ZipFile(entries, files[k].filename, files[k].labels), files, k + 1)

\* if (!labelSetups || labelSetups.length === 0)
NoLabelSetupsWhenMissing(body) == body.labelSetups = None

NoLabelSetups(body) ==
    body.labelSetups = None \/ Len(body.labelSetups[1]) = 0

\* { width: sheetWidth, height: sheetHeight, margin: 0, gap: 0 }, with
\* sheetWidth = 600 and sheetHeight = 300 when the body has none.
SheetOfBody(body) ==
    [width |-> IF body.sheetWidth = None THEN 600 ELSE body.sheetWidth[1],
     height |-> IF body.sheetHeight = None THEN 300 ELSE body.sheetHeight[1],
     margin |-> 0, gap |-> 0]

\* The bodies of the export requests: the label list missing, empty, or of
\* up to MaxHandlerSetups setups; the sheet size given or not.
ExportBodies ==
    [labelSetups : {None, Some(<<>>)}
                       \cup {Some(s) : s \in SeqsUpTo(OrderSetups, MaxHandlerSetups)},
     sheet : {<<None, None>>, <<Some(4), Some(3)>>}]

\* An export request has arrived.
InitExportHandler ==
    /\ \E route \in {"/export/dxf", "/export/pdf"}, b \in ExportBodies :
           request = [route |-> route, labelSetups |-> b.labelSetups,
                      sheetWidth |-> b.sheet[1], sheetHeight |-> b.sheet[2]]
    /\ pc = "received"
    /\ calls = <<>>
    /\ promise = <<>>
    /\ response = <<>>
    /\ labelSetups = <<>>
    /\ sheetConfig = DEFAULT_SHEET
    /\ dxfFiles = <<>>
    /\ pdfFiles = <<>>
    /\ done = {}
    /\ sheetLabels = <<>> /\ dxfDrawing = <<>> /\ pdfDrawing = <<>>
    /\ IdlePack
    /\ IdlePath

\* POST /export/dxf up to its first await: the check of the label list,
\* generateDxfFiles, and the call of generatePdfFiles.
ExportDxfReceived ==
    /\ pc = "received"
    /\ request.route = "/export/dxf"
    /\ IF NoLabelSetups(request)
       THEN /\ response' = Append(response, ErrorResponse(400, "No label setups provided"))
            /\ pc' = "done"
            /\ UNCHANGED <<labelSetups, sheetConfig, dxfFiles, calls>>
       ELSE /\ labelSetups' = request.labelSetups[1]
            /\ sheetConfig' = SheetOfBody(request)
            /\ dxfFiles' = generateDxfFiles(labelSetups', sheetConfig')
            /\ calls' = calls \o <<"generateDxfFiles", "generatePdfFiles">>
            /\ pc' = "awaitPdfFiles"
            /\ UNCHANGED response
    /\ UNCHANGED <<dxfSheets, pdfSheets, pdfFiles, sheetLabels, dxfDrawing,
                   pdfDrawing, done, pathVars, request, promise>>

\* POST /export/pdf up to its first await.
ExportPdfReceived ==
    /\ pc = "received"
    /\ request.route = "/export/pdf"
    /\ IF NoLabelSetups(request)
       THEN /\ response' = Append(response, ErrorResponse(400, "No label setups provided"))
            /\ pc' = "done"
            /\ UNCHANGED <<labelSetups, sheetConfig, calls>>
       ELSE /\ labelSetups' = request.labelSetups[1]
            /\ sheetConfig' = SheetOfBody(request)
            /\ calls' = calls \o <<"generatePdfFiles">>
            /\ pc' = "awaitPdfFiles"
            /\ UNCHANGED response
    /\ UNCHANGED <<dxfSheets, pdfSheets, dxfFiles, pdfFiles, sheetLabels,
                   dxfDrawing, pdfDrawing, done, pathVars, request, promise>>

\* await generatePdfFiles(...) returns the files: no file at all is answered
\* with 500, otherwise the files are put in the zip and the zip is generated.
PdfFilesGenerated ==
    /\ pc = "awaitPdfFiles"
    /\ pdfFiles' = generatePdfFiles(labelSetups, sheetConfig)
    /\ IF Len(dxfFiles) = 0 /\ Len(pdfFiles') = 0
       THEN /\ response' =
                   Append(response,
                          ErrorResponse(500, IF request.route = "/export/dxf"
                                             THEN "No files generated"
                                             ELSE "No PDF files generated"))
            /\ pc' = "done"
            /\ UNCHANGED calls
       ELSE /\ calls' = Append(calls, "zip.generateAsync")
            /\ pc' = "awaitZip"
            /\ UNCHANGED response
    /\ UNCHANGED <<labelSetups, sheetConfig, dxfSheets, pdfSheets, dxfFiles,
                   sheetLabels, dxfDrawing, pdfDrawing, done, pathVars, request,
                   promise>>

\* await zip.generateAsync(...) returns the archive, which is the response.
ExportZipGenerated ==
    /\ pc = "awaitZip"
    /\ request.route \in {"/export/dxf", "/export/pdf"}
    /\ response' = Append(response,
                          FileResponse("zip", ZipFiles(ZipFiles(<<>>, dxfFiles, 1),
                                                       pdfFiles, 1)))
    /\ pc' = "done"
    /\ UNCHANGED <<labelSetups, sheetConfig, dxfSheets, pdfSheets, dxfFiles,
                   pdfFiles, sheetLabels, dxfDrawing, pdfDrawing, done, pathVars,
                   request, calls, promise>>

\* An await of the handler throws (the PDF library or the zip fails): the
\* catch block answers with 500.
ExportFails ==
    /\ pc \in {"awaitPdfFiles", "awaitZip"}
    /\ request.route \in {"/export/dxf", "/export/pdf"}
    /\ response' =
           Append(response,
                  ErrorResponse(500, IF request.route = "/export/dxf"
                                     THEN "Failed to generate DXF file"
                                     ELSE "Failed to generate PDF file"))
    /\ pc' = "done"
    /\ UNCHANGED <<labelSetups, sheetConfig, dxfSheets, pdfSheets, dxfFiles,
                   pdfFiles, sheetLabels, dxfDrawing, pdfDrawing, done, pathVars,
                   request, calls, promise>>

NextExportHandler ==
    \/ ExportDxfReceived
    \/ ExportPdfReceived
    \/ PdfFilesGenerated
    \/ ExportZipGenerated
    \/ ExportFails

SpecExportHandler == InitExportHandler /\ [][NextExportHandler]_vars

\* The label list of the request is missing or empty.
EmptyInput == request.labelSetups \in {None, Some(<<>>)}

\* C16: an export request whose label list is missing or empty is answered
\* by the handler's first step with the status 400 and no archive, that is
\* its only response, and neither grouping and packing nor file generation
\* ever runs for it.
C16_EmptyInputFault ==
    /\ [](EmptyInput =>
            /\ calls = <<>> /\ dxfFiles = <<>> /\ pdfFiles = <<>>
            /\ Len(response) <= 1
            /\ \A k \in 1..Len(response) :
                   /\ response[k].status = 400
                   /\ response[k].body = "none" /\ response[k].entries = <<>>
            /\ pc = "done" => Len(response) = 1)
    /\ [][(EmptyInput /\ pc = "received") => (pc' = "done" /\ Len(response') = 1)]_vars

\* C16's case: a request for /export/dxf with an empty label list has been
\* answered.
C16_Witness ==
    /\ request.route = "/export/dxf"
    /\ request.labelSetups = Some(<<>>)
    /\ pc = "done"
    /\ response = <<ErrorResponse(400, "No label setups provided")>>

-----------------------------------------------------------------------------
(* POST /export/trace, traceImageToDxf and traceImageToSvg.  The tracer     *)
(* (potrace.trace) calls its callback once, with an error or with an SVG;   *)
(* the callback runs in one step.                                          *)

\* The promise a trace function returns: the function, the threshold it
\* passes to the tracer, whether the tracer has called back and how, how far
\* the assembly of the outline went ("none", "done", "threw"), the promise's
\* state, and the number of calls of resolve and reject so far.
NoPromise ==
    [of |-> "none", threshold |-> 0, tracer |-> "none", assembly |-> "none",
     state |-> "none", settles |-> 0]

\* new Promise(...) and potrace.trace(imageBuffer, traceOptions, callback)
NewPromise(function, threshold) ==
    [of |-> function, threshold |-> threshold, tracer |-> "pending",
     assembly |-> "none", state |-> "pending", settles |-> 0]

\* resolve(...) or reject(...): the first call settles the promise.
Settle(p, outcome) ==
    [p EXCEPT !.settles = @ + 1,
              !.state = IF @ = "pending" THEN outcome ELSE @]

\* if (err) { reject(err); return; }
CallbackOnErrorWithoutReturn(p) ==
    Settle([Settle([p EXCEPT !.tracer = "error"], "rejected")
                EXCEPT !.assembly = "done"], "fulfilled")

CallbackOnError(p) == Settle([p EXCEPT !.tracer = "error"], "rejected")

\* The callback with an SVG: traceImageToSvg resolves with it;
\* traceImageToDxf assembles the outline in a try block and resolves, or
\* rejects when the assembly throws.
CallbackOnSvg(p, throws) ==
    IF p.of = "traceImageToSvg"
    THEN Settle([p EXCEPT !.tracer = "success"], "fulfilled")
    ELSE IF throws
         THEN Settle([p EXCEPT !.tracer = "success", !.assembly = "threw"], "rejected")
         ELSE Settle([p EXCEPT !.tracer = "success", !.assembly = "done"], "fulfilled")

\* The calls of the assembly: extractPathsFromSvg, svgPathToPolylinePoints
\* and createPolylineModel path by path, makerjs.exporter.toDXF.
AssemblyCalls(p, throws) ==
    IF p.of = "traceImageToSvg" THEN <<>>
    ELSE IF throws THEN <<"extractPathsFromSvg">>
    ELSE <<"extractPathsFromSvg", "svgPathToPolylinePoints", "toDXF">>

\* parseInt(threshold, 10) for a text of digits.
ParseInt(s) == DigitsValue(s, 1, DigitRun(s, 1))

\* threshold ? parseInt(threshold, 10) : 128
ThresholdOf(req) ==
    IF req.threshold = None \/ req.threshold = Some(<<>>) THEN 128
    ELSE ParseInt(req.threshold[1])

AllowedTypes == {"image/png", "image/jpeg", "image/bmp", "image/gif"}

\* The image of the request: none, or a file of the given type.
Images == {"none", "text/plain"} \cup AllowedTypes

Thresholds == {None, Some(<<>>), Some(<<"9">>), Some(<<"2", "0", "0">>)}

Formats == {None, Some("svg"), Some("dxf"), Some("both")}

\* A trace request has arrived.
InitTraceHandler ==
    /\ request \in [route : {"/export/trace"}, image : Images,
                    threshold : Thresholds, format : Formats]
    /\ pc = "received"
    /\ calls = <<>>
    /\ promise = NoPromise
    /\ response = <<>>
    /\ done = {}
    /\ IdleLabels
    /\ IdlePath

\* POST /export/trace up to its first await: the checks of the image.
TraceReceived ==
    /\ pc = "received"
    /\ request.route = "/export/trace"
    /\ IF request.image = "none"
       THEN /\ response' = Append(response, ErrorResponse(400, "No image file provided"))
            /\ pc' = "done"
       ELSE IF request.image \notin AllowedTypes
       THEN /\ response' = Append(response, ErrorResponse(400, "Invalid file type"))
            /\ pc' = "done"
       ELSE /\ pc' = "awaitArrayBuffer"
            /\ UNCHANGED response
    /\ UNCHANGED <<labelSetups, sheetConfig, dxfSheets, pdfSheets, dxfFiles,
                   pdfFiles, sheetLabels, dxfDrawing, pdfDrawing, done, pathVars,
                   request, calls, promise>>

\* await image.arrayBuffer() returns: the trace function of the format is
\* called, which starts the tracer and returns its promise.
TraceStarted ==
    /\ pc = "awaitArrayBuffer"
    /\ LET function == IF request.format = Some("svg") THEN "traceImageToSvg"
                                                        ELSE "traceImageToDxf"
       IN  /\ promise' = NewPromise(function, ThresholdOf(request))
           /\ calls' = calls \o <<function, "potrace.trace">>
    /\ pc' = "awaitTrace"
    /\ UNCHANGED <<labelSetups, sheetConfig, dxfSheets, pdfSheets, dxfFiles,
                   pdfFiles, sheetLabels, dxfDrawing, pdfDrawing, done, pathVars,
                   request, response>>

\* The tracer calls back with an error.
TracerFailed ==
    /\ promise.tracer = "pending"
    /\ promise' = CallbackOnError(promise)
    /\ UNCHANGED <<labelSetups, sheetConfig, dxfSheets, pdfSheets, dxfFiles,
                   pdfFiles, sheetLabels, dxfDrawing, pdfDrawing, done, pathVars,
                   request, pc, calls, response>>

\* The tracer calls back with an SVG; the assembly of traceImageToDxf runs
\* to its end or throws.
TracerSucceeded ==
    /\ promise.tracer = "pending"
    /\ \E throws \in BOOLEAN :
           /\ throws => promise.of = "traceImageToDxf"
           /\ promise' = CallbackOnSvg(promise, throws)
           /\ calls' = calls \o AssemblyCalls(promise, throws)
    /\ UNCHANGED <<labelSetups, sheetConfig, dxfSheets, pdfSheets, dxfFiles,
                   pdfFiles, sheetLabels, dxfDrawing, pdfDrawing, done, pathVars,
                   request, pc, response>>

\* The await of the trace function ends: a rejection goes to the catch
\* block, an SVG or a DXF is the response, and for "both" the zip is made.
TraceAwaited ==
    /\ pc = "awaitTrace"
    /\ promise.state \in {"fulfilled", "rejected"}
    /\ IF promise.state = "rejected"
       THEN /\ response' = Append(response,
                                  ErrorResponse(500, "Failed to trace image to vector"))
            /\ pc' = "done"
            /\ UNCHANGED calls
       ELSE IF promise.of = "traceImageToSvg"
       THEN /\ response' = Append(response, FileResponse("svg", <<>>))
            /\ pc' = "done"
            /\ UNCHANGED calls
       ELSE IF request.format = Some("both")
       THEN /\ calls' = Append(calls, "zip.generateAsync")
            /\ pc' = "awaitZip"
            /\ UNCHANGED response
       ELSE /\ response' = Append(response, FileResponse("dxf", <<>>))
            /\ pc' = "done"
            /\ UNCHANGED calls
    /\ UNCHANGED <<labelSetups, sheetConfig, dxfSheets, pdfSheets, dxfFiles,
                   pdfFiles, sheetLabels, dxfDrawing, pdfDrawing, done, pathVars,
                   request, promise>>

\* await zip.generateAsync(...) returns the archive of the DXF and the SVG.
TraceZipGenerated ==
    /\ pc = "awaitZip"
    /\ request.route = "/export/trace"
    /\ response' =
           Append(response,
                  FileResponse("zip", ZipFile(ZipFile(<<>>, "image.dxf", "dxf"),
                                              "image.svg", "svg")))
    /\ pc' = "done"
    /\ UNCHANGED <<labelSetups, sheetConfig, dxfSheets, pdfSheets, dxfFiles,
                   pdfFiles, sheetLabels, dxfDrawing, pdfDrawing, done, pathVars,
                   request, calls, promise>>

\* image.arrayBuffer() or zip.generateAsync() throws: the catch block.
TraceFails ==
    /\ pc \in {"awaitArrayBuffer", "awaitZip"}
    /\ request.route = "/export/trace"
    /\ response' = Append(response,
                          ErrorResponse(500, "Failed to trace image to vector"))
    /\ pc' = "done"
    /\ UNCHANGED <<labelSetups, sheetConfig, dxfSheets, pdfSheets, dxfFiles,
                   pdfFiles, sheetLabels, dxfDrawing, pdfDrawing, done, pathVars,
                   request, calls, promise>>

NextTraceHandler ==
    \/ TraceReceived
    \/ TraceStarted
    \/ TracerFailed
    \/ TracerSucceeded
    \/ TraceAwaited
    \/ TraceZipGenerated
    \/ TraceFails

SpecTraceHandler == InitTraceHandler /\ [][NextTraceHandler]_vars

\* traceImageToDxf has been called.
DxfTrace == promise.of = "traceImageToDxf"

\* The tracer reported an error, or the assembly threw.
TraceFault == promise.tracer = "error" \/ promise.assembly = "threw"

AssemblyStarted ==
    promise.assembly # "none" \/ \E k \in 1..Len(calls) : calls[k] = "extractPathsFromSvg"

\* C17: in a call of traceImageToDxf the assembly starts only after the
\* tracer's callback reported success; resolve or reject is called exactly
\* once, when the tracer calls back, and a settled promise stays as it is;
\* after a tracer error or a throw of the assembly the promise is rejected,
\* and the handler's only response is the 500 error, without a file.
C17_TracerCompletion ==
    /\ [](DxfTrace =>
            /\ AssemblyStarted => promise.tracer = "success"
            /\ promise.settles = (IF promise.tracer = "pending" THEN 0 ELSE 1)
            /\ promise.state = "pending" <=> promise.settles = 0
            /\ TraceFault =>
                   /\ promise.state = "rejected"
                   /\ \A k \in 1..Len(response) :
                          /\ response[k].status = 500
                          /\ response[k].body = "none"
                          /\ response[k].entries = <<>>
                   /\ pc = "done" => Len(response) = 1
            /\ Len(response) <= 1)
    /\ [][(DxfTrace /\ promise.state # "pending") => promise' = promise]_vars

\* C17's case: the assembly of a request for both files threw after the
\* tracer's success, and the handler answered with the 500 error.
C17_Witness ==
    /\ DxfTrace
    /\ request.format = Some("both")
    /\ promise.tracer = "success" /\ promise.assembly = "threw"
    /\ promise.state = "rejected" /\ promise.settles = 1
    /\ pc = "done"
    /\ response = <<ErrorResponse(500, "Failed to trace image to vector")>>

-----------------------------------------------------------------------------
(* The filenames of one export request. *)

\* Two files of different (material group, page number) pairs.
DifferentSheets(f, g) == f.key # g.key \/ f.page # g.page

DistinctFilenames(files) ==
    \A i, j \in 1..Len(files) :
        DifferentSheets(files[i], files[j]) => files[i].filename # files[j].filename

\* Adding the files to an archive one by one keeps every one of them.
NothingOverwritten(files) == Len(ZipFiles(<<>>, files, 1)) = Len(files)

\* C21 (as claimed): two generated files of the same format that belong to
\* different (material group, page number) pairs have different filenames,
\* whatever the colours, thickness and style, so that adding the files of a
\* format to the archive overwrites none of them.
C21_DistinctFilenames ==
    /\ DistinctFilenames(dxfFiles) /\ NothingOverwritten(dxfFiles)
    /\ DistinctFilenames(pdfFiles) /\ NothingOverwritten(pdfFiles)

\* The key has the four parts of a material group and its style is one of
\* the two the filename tells apart.
KnownStyle(file) ==
    /\ Len(Split(file.key)) = 4
    /\ Split(file.key)[4] \in {Adhesive, NonAdhesive}

DistinctAmongKnownStyles(files) ==
    \A i, j \in 1..Len(files) :
        (KnownStyle(files[i]) /\ KnownStyle(files[j])
            /\ DifferentSheets(files[i], files[j])) =>
                files[i].filename # files[j].filename

\* What the generators do instead: the filenames differ between the files
\* of groups whose style is "Adhesive" or "Non Adhesive"; every other style
\* is written like "Adhesive".
C21_DistinctFilenamesOfKnownStyles ==
    DistinctAmongKnownStyles(dxfFiles) /\ DistinctAmongKnownStyles(pdfFiles)

\* Both generators have returned the files of two groups of known styles,
\* one of them with two pages.
C21_Witness ==
    /\ "dxfFiles" \in done /\ "pdfFiles" \in done
    /\ Len(dxfFiles) = 3 /\ Len(pdfFiles) = 3
    /\ \A i \in 1..3 : KnownStyle(dxfFiles[i]) /\ KnownStyle(pdfFiles[i])
    /\ dxfFiles[1].key # dxfFiles[3].key
    /\ pdfFiles[1].key # pdfFiles[3].key
====
